---- MODULE Spec2Model ----
(***************************************************************************)
(* A model of the template compiler front end: the markup tokenizer        *)
(* (parseHTML), the text interpolation parser (parseText), the AST builder *)
(* (parse) and the code generator (generate).                              *)
(*                                                                         *)
(* Markup, attribute names and values, and text are sequences of one-      *)
(* character strings, so that the scanners work on characters as the       *)
(* regular expressions of the source do.  Emitted program text is a        *)
(* string.  The AST is an arena: nodes are records addressed by their      *)
(* index in the sequence `nodes', in creation order; 0 is "no node".       *)
(***************************************************************************)
EXTENDS Integers, Sequences, FiniteSets, TLC

\* The functions of the compiler call one another through Call, defined with
\* the state machine at the end of the tokenizer.
RECURSIVE Call(_, _)

(***************************************************************************)
(* Values and strings                                                      *)
(***************************************************************************)

\* JavaScript's undefined, for a field that holds a string (a character
\* sequence) when it is set.  No scanner can produce this value: its one
\* element is not a single character.
Undefined == <<"undefined">>

\* JavaScript truthiness of a string-or-undefined value.
Truthy(v) == v # Undefined /\ v # <<>>

Range(s) == {s[i] : i \in 1..Len(s)}

RECURSIVE Str(_)
\* The string a character sequence spells.
Str(cs) == IF cs = <<>> THEN "" ELSE Head(cs) \o Str(Tail(cs))

RECURSIVE JoinStr(_, _)
\* Array.prototype.join on an array of strings.
JoinStr(ss, sep) ==
  IF ss = <<>> THEN ""
  ELSE IF Len(ss) = 1 THEN ss[1]
  ELSE ss[1] \o sep \o JoinStr(Tail(ss), sep)

RECURSIVE Flatten(_)
Flatten(ss) == IF ss = <<>> THEN <<>> ELSE Head(ss) \o Flatten(Tail(ss))

\* The characters JSON.stringify writes for one character of a string.
JsonChar(c) ==
  CASE c = "\"" -> <<"\\", "\"">>
    [] c = "\\" -> <<"\\", "\\">>
    [] c = "\n" -> <<"\\", "n">>
    [] OTHER -> <<c>>

\* JSON.stringify of a string.
JsonStringify(cs) ==
  <<"\"">> \o Flatten([i \in 1..Len(cs) |-> JsonChar(cs[i])]) \o <<"\"">>

\* U+2028 and U+2029, each one character of the input.
LS == "\\u2028"
PS == "\\u2029"

\* transformSpecialNewlines: the two separators are written as escapes.  The
\* model's name for each separator character is already the escape's text, so
\* the replacement splits it into the six characters of the escape.
EscapeOf(c) ==
  IF c = LS THEN <<"\\", "u", "2", "0", "2", "8">>
  ELSE IF c = PS THEN <<"\\", "u", "2", "0", "2", "9">>
  ELSE <<c>>

transformSpecialNewlines(cs) == Flatten([i \in 1..Len(cs) |-> EscapeOf(cs[i])])

(***************************************************************************)
(* AST nodes                                                               *)
(***************************************************************************)

\* el.wrapData / el.wrapListeners when no directive compiler has set them.
NoWrap == [set |-> FALSE]

\* A node with every field at the value JavaScript reads from an absent
\* property: undefined, which tests false, or the empty list where the code
\* only ever tests the list for presence.  Elements have type 1, interpolated
\* text type 2, literal text and comments type 3.  The field `model' of an
\* element is set only by a platform directive compiler, of which the core has
\* none, and is not represented.
BlankNode ==
  [type |-> 0, tag |-> Undefined, attrsList |-> <<>>, attrsMap |-> <<>>,
   parent |-> 0, children |-> <<>>,
   text |-> Undefined, expression |-> Undefined, tokens |-> <<>>,
   isComment |-> FALSE,
   forbidden |-> FALSE, pre |-> FALSE, plain |-> FALSE,
   for |-> Undefined, alias |-> Undefined,
   iterator1 |-> Undefined, iterator2 |-> Undefined,
   if |-> Undefined, else |-> FALSE, elseif |-> Undefined,
   ifConditions |-> <<>>, once |-> FALSE,
   key |-> Undefined, ref |-> Undefined, refInFor |-> FALSE,
   slotName |-> Undefined, slotScope |-> Undefined, slotTarget |-> Undefined,
   component |-> Undefined, inlineTemplate |-> FALSE, hasBindings |-> FALSE,
   attrs |-> <<>>, props |-> <<>>, events |-> <<>>, nativeEvents |-> <<>>,
   directives |-> <<>>, scopedSlots |-> <<>>,
   wrapData |-> NoWrap, wrapListeners |-> NoWrap,
   staticRoot |-> FALSE, staticInFor |-> FALSE,
   staticProcessed |-> FALSE, onceProcessed |-> FALSE,
   forProcessed |-> FALSE, ifProcessed |-> FALSE]

\* obj[name] of an attribute map.
MapGet(m, name) == IF name \in DOMAIN m THEN m[name] ELSE Undefined

(***************************************************************************)
(* Platform predicates (options)                                           *)
(***************************************************************************)

\* The tags the web platform reserves, among those the inputs use.
ReservedTags == {"div", "a", "b", "p", "li", "span", "pre", "br",
                 "template", "slot", "script", "style", "textarea"}

\* options.isReservedTag || no
isReservedTag(opts, tag) == opts.web /\ Str(tag) \in ReservedTags

\* CodegenState.maybeComponent
maybeComponent(opts, n) == ~(isReservedTag(opts, n.tag) /\ ~Truthy(n.component))

(***************************************************************************)
(* Code generator                                                          *)
(*                                                                         *)
(* Every operator takes the state `st' it runs in and returns the program  *)
(* text with the state it leaves: [code, st].  st holds the AST (which     *)
(* generation mutates), the diagnostic sink, the fields of the current     *)
(* CodegenState (staticRenderFns, onceId, pre), and whether an error was   *)
(* thrown.  st.sid names the current CodegenState and st.log records the   *)
(* calls made, for the properties stated about them.  The empty program    *)
(* text stands for a result of undefined.                                  *)
(*                                                                         *)
(* The hook lists transforms and dataGenFns are plucked from               *)
(* options.modules; the core supplies no module and the lists are empty.   *)
(* The optional altGen / altEmpty / altHelper parameters are passed by no  *)
(* caller in the core and are absent.                                      *)
(***************************************************************************)

Ret(code, st) == [code |-> code, st |-> st]

Log(st, entry) == [st EXCEPT !.log = Append(@, entry)]

\* state.warn(msg, tip)
Warn(st, msg, tip) ==
  [st EXCEPT !.warnings = Append(@, [msg |-> msg, tip |-> tip])]

\* The guards and flags genElement dispatches on, as it finds them.
Flags(n, statePre) ==
  [staticRoot |-> n.staticRoot, staticProcessed |-> n.staticProcessed,
   once |-> n.once, onceProcessed |-> n.onceProcessed,
   for |-> Truthy(n.for), forProcessed |-> n.forProcessed,
   if |-> Truthy(n.if), ifProcessed |-> n.ifProcessed,
   tag |-> Str(n.tag), slotTarget |-> Truthy(n.slotTarget),
   statePre |-> statePre]

\* A mutant of ElementBranch: the conditional is tried before the iteration.
ElementBranchIfFirst(f) ==
  IF f.staticRoot /\ ~f.staticProcessed THEN "static"
  ELSE IF f.once /\ ~f.onceProcessed THEN "once"
  ELSE IF f.if /\ ~f.ifProcessed THEN "if"
  ELSE IF f.for /\ ~f.forProcessed THEN "for"
  ELSE IF f.tag = "template" /\ ~f.slotTarget /\ ~f.statePre THEN "template"
  ELSE IF f.tag = "slot" THEN "slot"
  ELSE "normal"

\* The if / else-if chain of genElement.
ElementBranch(f) ==
  IF f.staticRoot /\ ~f.staticProcessed THEN "static"
  ELSE IF f.once /\ ~f.onceProcessed THEN "once"
  ELSE IF f.for /\ ~f.forProcessed THEN "for"
  ELSE IF f.if /\ ~f.ifProcessed THEN "if"
  ELSE IF f.tag = "template" /\ ~f.slotTarget /\ ~f.statePre THEN "template"
  ELSE IF f.tag = "slot" THEN "slot"
  ELSE "normal"

\* genProps
genProps(props) ==
  JoinStr([i \in 1..Len(props) |->
             "\"" \o Str(props[i].name) \o "\":"
                  \o Str(transformSpecialNewlines(props[i].value))], ",")

\* genText
genText(n) ==
  "_v(" \o (IF n.type = 2 THEN Str(n.expression)
            ELSE Str(transformSpecialNewlines(JsonStringify(n.text)))) \o ")"

\* genComment
genComment(n) == "_e(" \o Str(JsonStringify(n.text)) \o ")"

\* A mutant of needsNormalization: only an iteration asks for the full
\* normalization.
needsNormalizationForOnly(n) == n.for # Undefined

\* needsNormalization
needsNormalization(n) ==
  n.for # Undefined \/ Str(n.tag) = "template" \/ Str(n.tag) = "slot"

RECURSIVE NormalizationLoop(_, _, _, _, _)
\* The loop of getNormalizationType from child i on, with res so far.
NormalizationLoop(nodes, opts, children, i, res) ==
  IF i > Len(children) THEN res
  ELSE LET n == nodes[children[i]]
           conds == n.ifConditions
       IN IF n.type # 1 THEN NormalizationLoop(nodes, opts, children, i + 1, res)
          ELSE IF needsNormalization(n)
                  \/ \E k \in 1..Len(conds) : needsNormalization(nodes[conds[k].block])
               THEN 2
          ELSE IF maybeComponent(opts, n)
                  \/ \E k \in 1..Len(conds) : maybeComponent(opts, nodes[conds[k].block])
               THEN NormalizationLoop(nodes, opts, children, i + 1, 1)
          ELSE NormalizationLoop(nodes, opts, children, i + 1, res)

\* getNormalizationType
getNormalizationType(nodes, opts, children) ==
  Call("NormalizationLoop", <<nodes, opts, children, 1, 0>>)

\* The bind directive compiler's el.wrapData, and the on directive
\* compiler's el.wrapListeners, applied to the data text.
wrapData(w, code) ==
  "_b(" \o code \o ",'" \o Str(w.tag) \o "'," \o Str(w.value) \o ","
        \o (IF w.prop THEN "true" ELSE "false")
        \o (IF w.sync THEN ",true" ELSE "") \o ")"

wrapListeners(w, code) == "_g(" \o code \o "," \o Str(w.value) \o ")"

\* JSON.stringify of a modifier object: the names in insertion order.
ModifiersJson(mods) ==
  "{" \o JoinStr([i \in 1..Len(mods) |-> "\"" \o Str(mods[i]) \o "\":true"], ",") \o "}"

\* genHandlers: one handler per event name, several as an array.
HandlerText(h) == "function($event){" \o Str(h) \o "}"

genHandlers(events, isNative) ==
  (IF isNative THEN "nativeOn:{" ELSE "on:{")
  \o JoinStr([i \in 1..Len(events) |->
       "\"" \o Str(events[i].name) \o "\":"
       \o (IF Len(events[i].handlers) = 1 THEN HandlerText(events[i].handlers[1])
           ELSE "[" \o JoinStr([k \in 1..Len(events[i].handlers) |->
                                  HandlerText(events[i].handlers[k])], ",") \o "]")],
       ",")
  \o "}"

\* The text of a runtime directive descriptor, without the trailing comma.
DirectiveText(dir) ==
  "{name:\"" \o Str(dir.name) \o "\",rawName:\"" \o Str(dir.rawName) \o "\""
  \o (IF Truthy(dir.value)
      THEN ",value:(" \o Str(dir.value) \o "),expression:" \o Str(JsonStringify(dir.value))
      ELSE "")
  \o (IF Truthy(dir.arg) THEN ",arg:\"" \o Str(dir.arg) \o "\"" ELSE "")
  \o (IF dir.modifiers # <<>> THEN ",modifiers:" \o ModifiersJson(dir.modifiers) ELSE "")
  \o "}"

\* The names of baseDirectives: on, bind and cloak.  Each returns undefined,
\* so none needs a runtime counterpart.
IsBaseDirective(name) == Str(name) \in {"on", "bind", "cloak"}

\* The bind directive compiler (el.wrapData) and the on directive compiler
\* (el.wrapListeners), run on element e for directive dir.
RunDirective(st, e, dir) ==
  CASE Str(dir.name) = "bind" ->
         [st EXCEPT !.nodes[e].wrapData =
            [set |-> TRUE, tag |-> st.nodes[e].tag, value |-> dir.value,
             prop |-> <<"p", "r", "o", "p">> \in Range(dir.modifiers),
             sync |-> <<"s", "y", "n", "c">> \in Range(dir.modifiers)]]
    [] Str(dir.name) = "on" ->
         LET st1 == IF ~st.opts.production /\ dir.modifiers # <<>>
                    THEN Warn(st, "v-on without argument does not support modifiers", FALSE)
                    ELSE st
         IN [st1 EXCEPT !.nodes[e].wrapListeners = [set |-> TRUE, value |-> dir.value]]
    [] OTHER -> st

RECURSIVE DirectivesLoop(_, _, _, _, _)
\* The loop of genDirectives from directive i on; texts are the descriptors
\* written so far.
DirectivesLoop(e, dirs, i, texts, st) ==
  IF i > Len(dirs) THEN [texts |-> texts, st |-> st]
  ELSE IF IsBaseDirective(dirs[i].name)
       THEN DirectivesLoop(e, dirs, i + 1, texts, RunDirective(st, e, dirs[i]))
       ELSE DirectivesLoop(e, dirs, i + 1, Append(texts, Call("DirectiveText", <<dirs[i]>>)), st)

\* genDirectives
genDirectives(e, st) ==
  LET dirs == st.nodes[e].directives
  IN IF dirs = <<>> THEN Ret("", st)
     ELSE LET r == Call("DirectivesLoop", <<e, dirs, 1, <<>>, st>>)
          IN IF r.texts = <<>> THEN Ret("", r.st)
             ELSE Ret("directives:[" \o JoinStr(r.texts, ",") \o "]", r.st)

\* The letters, for toUpperCase and toLowerCase.
LowerCase == <<"a", "b", "c", "d", "e", "f", "g", "h", "i", "j", "k", "l", "m",
               "n", "o", "p", "q", "r", "s", "t", "u", "v", "w", "x", "y", "z">>
UpperCase == <<"A", "B", "C", "D", "E", "F", "G", "H", "I", "J", "K", "L", "M",
               "N", "O", "P", "Q", "R", "S", "T", "U", "V", "W", "X", "Y", "Z">>

Upper(c) ==
  IF c \in Range(LowerCase)
  THEN UpperCase[CHOOSE i \in 1..26 : LowerCase[i] = c] ELSE c

Lower(c) ==
  IF c \in Range(UpperCase)
  THEN LowerCase[CHOOSE i \in 1..26 : UpperCase[i] = c] ELSE c

toLowerCase(cs) == [i \in 1..Len(cs) |-> Lower(cs[i])]

\* The class \w of the regular expressions.
IsWordChar(c) ==
  c \in Range(LowerCase) \cup Range(UpperCase)
       \cup {"0", "1", "2", "3", "4", "5", "6", "7", "8", "9", "_"}

RECURSIVE camelize(_)
camelize(cs) ==
  IF cs = <<>> THEN <<>>
  ELSE IF Len(cs) >= 2 /\ cs[1] = "-" /\ IsWordChar(cs[2])
       THEN <<Upper(cs[2])>> \o camelize(SubSeq(cs, 3, Len(cs)))
  ELSE <<cs[1]>> \o camelize(Tail(cs))

RECURSIVE GenIfConditions(_, _, _), GenScopedSlots(_, _, _, _), GenNodes(_, _, _, _)

\* genElement's last branch: a component or an element.
GenNormal(e, st) ==
  LET n == st.nodes[e]
  IN IF Truthy(n.component) THEN Call("GenComponent", <<n.component, e, st>>)
     ELSE LET d == IF ~n.plain \/ (n.pre /\ maybeComponent(st.opts, n))
                   THEN Call("GenData", <<e, st>>) ELSE Ret("", st)
          IN IF d.st.threw THEN d
             ELSE LET c == IF n.inlineTemplate THEN Ret("", d.st)
                           ELSE Call("GenChildren", <<e, d.st, TRUE>>)
                  IN Ret("_c('" \o Str(n.tag) \o "'"
                          \o (IF d.code # "" THEN "," \o d.code ELSE "")
                          \o (IF c.code # "" THEN "," \o c.code ELSE "")
                          \o ")", c.st)

\* genElement
GenElement(e, st0) ==
  LET p == st0.nodes[e].parent
      st1 == IF p # 0
             THEN [st0 EXCEPT !.nodes[e].pre = @ \/ st0.nodes[p].pre]
             ELSE st0
      f == Flags(st1.nodes[e], st1.pre)
      br == ElementBranch(f)
      st2 == Log(st1, [fn |-> "genElement", el |-> e, sid |-> st1.sid,
                       flags |-> f, br |-> br])
  IN CASE br = "static" -> Call("GenStatic", <<e, st2>>)
       [] br = "once" -> Call("GenOnce", <<e, st2>>)
       [] br = "for" -> Call("GenFor", <<e, st2>>)
       [] br = "if" -> Call("GenIf", <<e, st2>>)
       [] br = "template" ->
            LET r == Call("GenChildren", <<e, st2, FALSE>>)
            IN Ret(IF r.code = "" THEN "void 0" ELSE r.code, r.st)
       [] br = "slot" -> Call("GenSlot", <<e, st2>>)
       [] OTHER -> Call("GenNormal", <<e, st2>>)

\* A mutant of StaticRef: the reference carries the length of the list, not
\* the index of its last entry.
StaticRefLength(fns, inFor) ==
  "_m(" \o ToString(Len(fns)) \o (IF inFor THEN ",true" ELSE "") \o ")"

\* The reference genStatic returns, to the last entry of staticRenderFns.
StaticRef(fns, inFor) ==
  "_m(" \o ToString(Len(fns) - 1) \o (IF inFor THEN ",true" ELSE "") \o ")"

\* genStatic
GenStatic(e, st0) ==
  LET st1 == [st0 EXCEPT !.nodes[e].staticProcessed = TRUE]
      originalPreState == st1.pre
      st2 == IF st1.nodes[e].pre THEN [st1 EXCEPT !.pre = TRUE] ELSE st1
      r == Call("GenElement", <<e, st2>>)
  IN IF r.st.threw THEN r
     ELSE LET st3 == [r.st EXCEPT
                        !.fns = Append(@, "with(this){return " \o r.code \o "}"),
                        !.pre = originalPreState]
              code == StaticRef(st3.fns, st3.nodes[e].staticInFor)
          IN Ret(code,
                 Log(st3, [fn |-> "genStatic", el |-> e, sid |-> st3.sid,
                           before |-> st0.fns, inner |-> r.st.fns,
                           after |-> st3.fns, body |-> r.code, code |-> code]))

RECURSIVE OnceKeyOfKeyed(_, _)
\* A mutant of OnceKey: the walk goes on past an iteration without a key.
OnceKeyOfKeyed(nodes, p) ==
  IF p = 0 THEN <<>>
  ELSE IF Truthy(nodes[p].for) /\ Truthy(nodes[p].key) THEN nodes[p].key
  ELSE OnceKeyOfKeyed(nodes, nodes[p].parent)

RECURSIVE OnceKey(_, _)
\* The walk of genOnce from ancestor p up: the key of the first ancestor
\* that has an iteration binding, '' when there is none.
OnceKey(nodes, p) ==
  IF p = 0 THEN <<>>
  ELSE IF Truthy(nodes[p].for) THEN nodes[p].key
  ELSE OnceKey(nodes, nodes[p].parent)

OnceWarning == "v-once can only be used inside v-for that is keyed. "

\* A mutant of OnceNotKeyed: nothing is reported.
OnceNotKeyedSilent(st) == st

\* genOnce, when no enclosing iteration gives a key: the diagnostic.
OnceNotKeyed(st) ==
  IF ~st.opts.production THEN Warn(st, OnceWarning, FALSE) ELSE st

\* A mutant of NextOnceId: the counter is left as it is.
SameOnceId(id) == id

\* state.onceId++: the counter after a marker was given its id.
NextOnceId(id) == id + 1

\* genOnce
GenOnce(e, st0) ==
  LET st1 == [st0 EXCEPT !.nodes[e].onceProcessed = TRUE]
      n == st1.nodes[e]
  IN IF Truthy(n.if) /\ ~n.ifProcessed
     THEN Call("GenIf", <<e, Log(st1, [fn |-> "genOnce", el |-> e, sid |-> st1.sid, path |-> "if"])>>)
     ELSE IF n.staticInFor
     THEN LET key == OnceKey(st1.nodes, n.parent)
          IN IF ~Truthy(key)
             THEN Call("GenElement", <<e, Log(OnceNotKeyed(st1),
                                             [fn |-> "genOnce", el |-> e,
                                              sid |-> st1.sid, path |-> "nokey"])>>)
             ELSE LET r == Call("GenElement", <<e, Log(st1, [fn |-> "genOnce", el |-> e,
                                                   sid |-> st1.sid, path |-> "memo"])>>)
                  IN IF r.st.threw THEN r
                     ELSE Ret("_o(" \o r.code \o "," \o ToString(r.st.onceId)
                                    \o "," \o Str(key) \o ")",
                              Log([r.st EXCEPT !.onceId = NextOnceId(@)],
                                  [fn |-> "marker", el |-> e, sid |-> r.st.sid,
                                   id |-> r.st.onceId, key |-> key]))
     ELSE Call("GenStatic", <<e, Log(st1, [fn |-> "genOnce", el |-> e, sid |-> st1.sid,
                                 path |-> "static"])>>)

\* A mutant of Ternary: the alternatives are exchanged.
TernarySwapped(exp, then, else) == "(" \o Str(exp) \o ")?" \o else \o ":" \o then

\* The conditional expression genIfConditions writes for a guarded branch.
Ternary(exp, then, else) == "(" \o Str(exp) \o ")?" \o then \o ":" \o else

\* genIfConditions, on the conditions from the i-th on (conditions.shift()
\* takes them off the front of the copy one by one).  parts are the branches
\* compiled, in the order they were compiled.
GenIfConditions(conditions, i, st) ==
  IF i > Len(conditions) THEN [code |-> "_e()", st |-> st, parts |-> <<>>]
  ELSE LET condition == conditions[i]
           \* genTernaryExp
           b == IF st.nodes[condition.block].once
                THEN Call("GenOnce", <<condition.block, st>>)
                ELSE Call("GenElement", <<condition.block, st>>)
           part == [exp |-> condition.exp, block |-> condition.block, code |-> b.code]
       IN IF b.st.threw THEN [code |-> "", st |-> b.st, parts |-> <<>>]
          ELSE IF Truthy(condition.exp)
          THEN LET rest == GenIfConditions(conditions, i + 1, b.st)
               IN [code |-> Ternary(condition.exp, b.code, rest.code),
                   st |-> rest.st, parts |-> <<part>> \o rest.parts]
          ELSE [code |-> b.code, st |-> b.st, parts |-> <<part>>]

\* A mutant of GenIf: entering the conditional clears the iteration guard.
GenIfClearsFor(e, st0) ==
  LET st1 == [st0 EXCEPT !.nodes[e].ifProcessed = TRUE,
                         !.nodes[e].forProcessed = FALSE]
      conditions == st1.nodes[e].ifConditions
      r == Call("GenIfConditions", <<conditions, 1, st1>>)
  IN IF r.st.threw THEN Ret("", r.st)
     ELSE Ret(r.code, Log(r.st, [fn |-> "genIf", el |-> e, sid |-> r.st.sid,
                                 conditions |-> conditions, parts |-> r.parts,
                                 code |-> r.code]))

\* genIf
GenIf(e, st0) ==
  LET st1 == [st0 EXCEPT !.nodes[e].ifProcessed = TRUE]
      conditions == st1.nodes[e].ifConditions
      r == Call("GenIfConditions", <<conditions, 1, st1>>)
  IN IF r.st.threw THEN Ret("", r.st)
     ELSE Ret(r.code, Log(r.st, [fn |-> "genIf", el |-> e, sid |-> r.st.sid,
                                 conditions |-> conditions, parts |-> r.parts,
                                 code |-> r.code]))

\* genFor
KeyTip == "component lists rendered with v-for should have explicit keys"

GenFor(e, st0) ==
  LET n == st0.nodes[e]
      iterator1 == IF Truthy(n.iterator1) THEN "," \o Str(n.iterator1) ELSE ""
      iterator2 == IF Truthy(n.iterator2) THEN "," \o Str(n.iterator2) ELSE ""
      tip == ~st0.opts.production /\ maybeComponent(st0.opts, n)
             /\ Str(n.tag) # "slot" /\ Str(n.tag) # "template" /\ ~Truthy(n.key)
      st1 == IF tip THEN Warn(st0, KeyTip, TRUE) ELSE st0
      st2 == Log([st1 EXCEPT !.nodes[e].forProcessed = TRUE],
                 [fn |-> "genFor", el |-> e, sid |-> st1.sid, tip |-> tip])
      r == Call("GenElement", <<e, st2>>)
  IN IF r.st.threw THEN r
     ELSE Ret("_l((" \o Str(n.for) \o "),function(" \o Str(n.alias)
                     \o iterator1 \o iterator2 \o "){return " \o r.code \o "})", r.st)

\* data.replace(/,$/, ''), data being the concatenation of the chunks.
StripTrailingComma(chunks) ==
  IF chunks # <<>> /\ chunks[Len(chunks)] = ","
  THEN SubSeq(chunks, 1, Len(chunks) - 1) ELSE chunks

\* A field of the data object that is present when its text is not empty.
OptChunk(text) == IF text # "" THEN <<text, ",">> ELSE <<>>

\* if (el.wrapData) data = el.wrapData(data)
ApplyWrapData(n, data) == IF n.wrapData.set THEN wrapData(n.wrapData, data) ELSE data

\* if (el.wrapListeners) data = el.wrapListeners(data)
ApplyWrapListeners(n, data) ==
  IF n.wrapListeners.set THEN wrapListeners(n.wrapListeners, data) ELSE data

\* The fields of the data object of genData that precede the scoped slots,
\* as chunks; dirs is the text genDirectives returned and n the element.
GenDataFields(dirs, n) ==
  LET Field(present, text) == IF present THEN <<text, ",">> ELSE <<>>
  IN <<"{">>
     \o Field(dirs # "", dirs)
     \o Field(Truthy(n.key), "key:" \o Str(n.key))
     \o Field(Truthy(n.ref), "ref:" \o Str(n.ref))
     \o Field(n.refInFor, "refInFor:true")
     \o Field(n.pre, "pre:true")
     \o Field(Truthy(n.component), "tag:\"" \o Str(n.tag) \o "\"")
     \o Field(n.attrs # <<>>, "attrs:{" \o genProps(n.attrs) \o "}")
     \o Field(n.props # <<>>, "domProps:{" \o genProps(n.props) \o "}")
     \o Field(n.events # <<>>, genHandlers(n.events, FALSE))
     \o Field(n.nativeEvents # <<>>, genHandlers(n.nativeEvents, TRUE))
     \o Field(Truthy(n.slotTarget) /\ ~Truthy(n.slotScope),
              "slot:" \o Str(n.slotTarget))

\* The end of genData: the trailing comma is stripped, the object closed,
\* and wrapData and wrapListeners applied.
GenDataWrap(chunks, n, st) ==
  IF st.threw THEN Ret("", st)
  ELSE Ret(ApplyWrapListeners(
             n, ApplyWrapData(n, JoinStr(StripTrailingComma(chunks), "") \o "}")),
           st)

\* The data object once the inline template field it is known.
GenDataInlined(chunks, e, it) ==
  GenDataWrap(chunks \o OptChunk(it.code), it.st.nodes[e], it.st)

\* The inline template field of genData, after the scoped slots field ss.
GenDataInline(e, chunks, ss) ==
  IF ss.st.threw THEN GenDataWrap(chunks, ss.st.nodes[e], ss.st)
  ELSE IF ss.st.nodes[e].inlineTemplate
  THEN GenDataInlined(chunks \o OptChunk(ss.code), e, Call("GenInlineTemplate", <<e, ss.st>>))
  ELSE GenDataWrap(chunks \o OptChunk(ss.code), ss.st.nodes[e], ss.st)

\* The scoped slots field of genData, after the fields chunks.
GenDataSlots(e, chunks, st) ==
  Call("GenDataInline", <<e, chunks,
                IF st.nodes[e].scopedSlots # <<>>
                THEN Call("GenScopedSlots", <<st.nodes[e].scopedSlots, 1, <<>>, st>>)
                ELSE Ret("", st)>>)

\* genData.  The text is kept as the chunks appended to it, a separating
\* comma being a chunk of its own.
GenDataAfterDirectives(e, d) ==
  GenDataSlots(e, Call("GenDataFields", <<d.code, d.st.nodes[e]>>), d.st)

GenData(e, st0) == GenDataAfterDirectives(e, genDirectives(e, st0))

\* genInlineTemplate.  el.children[0] of an empty child list is undefined,
\* and reading its type throws a TypeError.
GenInlineTemplate(e, st0) ==
  LET children == st0.nodes[e].children
      one == Len(children) = 1
      st1 == IF ~st0.opts.production
                /\ (~one \/ st0.nodes[children[1]].type # 1)
             THEN Warn(st0, "Inline-template components must have exactly one child element.", FALSE)
             ELSE st0
  IN IF children = <<>> THEN Ret("", [st1 EXCEPT !.threw = TRUE])
     ELSE IF st1.nodes[children[1]].type = 1
     THEN LET g == Call("Generate", <<children[1], st1>>)
              \* the enclosing CodegenState is current again
              st2 == [g.st EXCEPT !.fns = st1.fns, !.onceId = st1.onceId,
                                  !.pre = st1.pre, !.sid = st1.sid]
              code == "inlineTemplate:{render:function(){" \o g.render
                      \o "},staticRenderFns:["
                      \o JoinStr([i \in 1..Len(g.staticRenderFns) |->
                                    "function(){" \o g.staticRenderFns[i] \o "}"], ",")
                      \o "]}"
          IN IF g.st.threw THEN Ret("", st2)
             ELSE Ret(code, Log(st2, [fn |-> "genInlineTemplate", el |-> e,
                                      sid |-> st2.sid, nested |-> g.st.sid,
                                      outerBefore |-> [fns |-> st0.fns, onceId |-> st0.onceId],
                                      outerAfter |-> [fns |-> st2.fns, onceId |-> st2.onceId],
                                      nestedRender |-> g.render,
                                      nestedFns |-> g.staticRenderFns,
                                      code |-> code]))
     ELSE Ret("", st1)

\* genScopedSlots: the map over Object.keys(slots), from the i-th key on.
GenScopedSlots(slots, i, texts, st) ==
  IF i > Len(slots)
  THEN Ret("scopedSlots:_u([" \o JoinStr(texts, ",") \o "])", st)
  ELSE LET r == Call("GenScopedSlot", <<slots[i].key, slots[i].el, st>>)
       IN IF r.st.threw THEN Ret("", r.st)
          ELSE GenScopedSlots(slots, i + 1, Append(texts, r.code), r.st)

\* genScopedSlot
GenScopedSlot(key, e, st) ==
  LET n == st.nodes[e]
  IN IF Truthy(n.for) /\ ~n.forProcessed THEN Call("GenForScopedSlot", <<key, e, st>>)
     ELSE LET r == IF Str(n.tag) = "template"
                   THEN LET c == Call("GenChildren", <<e, st, FALSE>>)
                            body == IF c.code = "" THEN "undefined" ELSE c.code
                        IN IF Truthy(n.if)
                           THEN Ret(Str(n.if) \o "?" \o body \o ":undefined", c.st)
                           ELSE Ret(body, c.st)
                   ELSE Call("GenElement", <<e, st>>)
              scope == IF n.slotScope = Undefined THEN "undefined" ELSE Str(n.slotScope)
          IN IF r.st.threw THEN r
             ELSE Ret("{key:" \o Str(key) \o ",fn:function(" \o scope
                      \o "){return " \o r.code \o "}}", r.st)

\* genForScopedSlot
GenForScopedSlot(key, e, st0) ==
  LET n == st0.nodes[e]
      iterator1 == IF Truthy(n.iterator1) THEN "," \o Str(n.iterator1) ELSE ""
      iterator2 == IF Truthy(n.iterator2) THEN "," \o Str(n.iterator2) ELSE ""
      st1 == Log([st0 EXCEPT !.nodes[e].forProcessed = TRUE],
                 [fn |-> "genForScopedSlot", el |-> e, sid |-> st0.sid])
      r == Call("GenScopedSlot", <<key, e, st1>>)
  IN IF r.st.threw THEN r
     ELSE Ret("_l((" \o Str(n.for) \o "),function(" \o Str(n.alias)
                     \o iterator1 \o iterator2 \o "){return " \o r.code \o "})", r.st)

\* children.map(c => gen(c, state)), from the i-th child on.
GenNodes(children, i, texts, st) ==
  IF i > Len(children) THEN [texts |-> texts, st |-> st]
  ELSE LET r == Call("GenNode", <<children[i], st>>)
       IN IF r.st.threw THEN [texts |-> texts, st |-> r.st]
          ELSE GenNodes(children, i + 1, Append(texts, r.code), r.st)

\* genChildren
GenChildren(e, st, checkSkip) ==
  LET children == st.nodes[e].children
  IN IF children = <<>> THEN Ret("", st)
     ELSE LET el == st.nodes[children[1]]
          IN IF Len(children) = 1 /\ Truthy(el.for)
                /\ Str(el.tag) # "template" /\ Str(el.tag) # "slot"
             THEN LET normalizationType ==
                        IF maybeComponent(st.opts, el) THEN ",1" ELSE ""
                      r == Call("GenElement", <<children[1], st>>)
                  IN IF r.st.threw THEN r
                     ELSE Ret(r.code \o normalizationType, r.st)
             ELSE LET normalizationType ==
                        IF checkSkip
                        THEN getNormalizationType(st.nodes, st.opts, children)
                        ELSE 0
                      r == GenNodes(children, 1, <<>>, st)
                  IN IF r.st.threw THEN Ret("", r.st)
                     ELSE Ret("[" \o JoinStr(r.texts, ",") \o "]"
                              \o (IF normalizationType # 0
                                  THEN "," \o ToString(normalizationType) ELSE ""),
                              r.st)

\* genNode
GenNode(c, st) ==
  LET n == st.nodes[c]
  IN IF n.type = 1 THEN Call("GenElement", <<c, st>>)
     ELSE IF n.type = 3 /\ n.isComment THEN Ret(genComment(n), st)
     ELSE Ret(genText(n), st)

\* genSlot
GenSlot(e, st) ==
  LET n == st.nodes[e]
      slotName == IF Truthy(n.slotName) THEN Str(n.slotName) ELSE "\"default\""
      c == Call("GenChildren", <<e, st, FALSE>>)
      children == c.code
      attrs == IF n.attrs # <<>>
               THEN "{" \o JoinStr([i \in 1..Len(n.attrs) |->
                                      Str(Call("camelize", <<n.attrs[i].name>>)) \o ":"
                                      \o Str(n.attrs[i].value)], ",") \o "}"
               ELSE ""
      bind == MapGet(n.attrsMap, <<"v", "-", "b", "i", "n", "d">>)
      res1 == "_t(" \o slotName \o (IF children # "" THEN "," \o children ELSE "")
      res2 == IF (attrs # "" \/ Truthy(bind)) /\ children = ""
              THEN res1 \o ",null" ELSE res1
      res3 == IF attrs # "" THEN res2 \o "," \o attrs ELSE res2
      res4 == IF Truthy(bind)
              THEN res3 \o (IF attrs # "" THEN "" ELSE ",null") \o "," \o Str(bind)
              ELSE res3
  IN IF c.st.threw THEN c ELSE Ret(res4 \o ")", c.st)

\* genComponent
GenComponent(componentName, e, st) ==
  LET c == IF st.nodes[e].inlineTemplate THEN Ret("", st)
           ELSE Call("GenChildren", <<e, st, TRUE>>)
      d == IF c.st.threw THEN c ELSE Call("GenData", <<e, c.st>>)
  IN IF d.st.threw THEN d
     ELSE Ret("_c(" \o Str(componentName) \o "," \o d.code
              \o (IF c.code # "" THEN "," \o c.code ELSE "") \o ")", d.st)

\* A mutant of NewCodegenState: the new state starts from the fields of the
\* one that is current.
SharedCodegenState(st) ==
  [st EXCEPT !.sid = st.nsid, !.nsid = @ + 1]

\* new CodegenState(options): the fields a compile starts from.
NewCodegenState(st) ==
  [st EXCEPT !.fns = <<>>, !.onceId = 0, !.pre = FALSE,
             !.sid = st.nsid, !.nsid = @ + 1]

\* generate: [render, staticRenderFns, st].  ast = 0 is a missing AST.
Generate(ast, st0) ==
  LET st1 == Log(NewCodegenState(st0),
                 [fn |-> "generate", sid |-> st0.nsid, ast |-> ast, from |-> st0.sid])
      r == IF ast # 0 THEN Call("GenElement", <<ast, st1>>) ELSE Ret("_c(\"div\")", st1)
  IN [render |-> "with(this){return " \o r.code \o "}",
      staticRenderFns |-> r.st.fns,
      st |-> IF r.st.threw THEN r.st
             ELSE Log(r.st, [fn |-> "generated", sid |-> r.st.sid,
                             fns |-> r.st.fns, onceId |-> r.st.onceId])]

(***************************************************************************)
(* Text interpolation parser                                               *)
(***************************************************************************)

IsSpace(c) == c \in {" ", "\n", "\t", "\r"}

RECURSIVE TrimLeft(_)
TrimLeft(cs) == IF cs # <<>> /\ IsSpace(cs[1]) THEN TrimLeft(Tail(cs)) ELSE cs

RECURSIVE TrimRight(_)
TrimRight(cs) ==
  IF cs # <<>> /\ IsSpace(cs[Len(cs)]) THEN TrimRight(SubSeq(cs, 1, Len(cs) - 1)) ELSE cs

\* String.prototype.trim
Trim(cs) == TrimRight(TrimLeft(cs))

\* text.slice(from, to), on 0-based positions.
Slice(cs, from, to) == SubSeq(cs, from + 1, to)

\* Whether the characters of pat are those of cs from 0-based position i.
MatchesAt(cs, i, pat) ==
  i + Len(pat) <= Len(cs) /\ SubSeq(cs, i + 1, i + Len(pat)) = pat

\* The 0-based position of the first '|' of exp at or after i that is not
\* part of '||', -1 when there is none.
RECURSIVE PipeIndex(_, _)
PipeIndex(exp, i) ==
  IF i >= Len(exp) THEN -1
  ELSE IF exp[i + 1] = "|"
          /\ ~(i + 1 < Len(exp) /\ exp[i + 2] = "|")
          /\ ~(i >= 1 /\ exp[i] = "|")
       THEN i
  ELSE PipeIndex(exp, i + 1)

\* indexOf of a character, -1 when absent.
RECURSIVE IndexOfChar(_, _, _)
IndexOfChar(cs, c, i) ==
  IF i >= Len(cs) THEN -1
  ELSE IF cs[i + 1] = c THEN i
  ELSE IndexOfChar(cs, c, i + 1)

\* wrapFilter of the filter sub-parser: the call a filter makes of exp.
wrapFilter(exp, filter) ==
  LET i == IndexOfChar(filter, "(", 0)
  IN IF i < 0
     THEN <<"_", "f", "(", "\"">> \o filter \o <<"\"", ")", "(">> \o exp \o <<")">>
     ELSE LET name == Slice(filter, 0, i)
              args == Slice(filter, i + 1, Len(filter))
          IN <<"_", "f", "(", "\"">> \o name \o <<"\"", ")", "(">> \o exp
             \o (IF args # <<")">> THEN <<",">> \o args ELSE args)

RECURSIVE ApplyFilters(_, _)
\* The filters of rest (the text after the first pipe) applied to exp in turn.
ApplyFilters(exp, rest) ==
  LET i == PipeIndex(rest, 0)
  IN IF i < 0 THEN Call("wrapFilter", <<exp, Trim(rest)>>)
     ELSE ApplyFilters(Call("wrapFilter", <<exp, Trim(Slice(rest, 0, i))>>),
                       Slice(rest, i + 1, Len(rest)))

\* parseFilters, the filter sub-parser, for expressions without quotes or
\* brackets: the expression before the first pipe, wrapped by each filter.
parseFilters(exp) ==
  LET i == PipeIndex(exp, 0)
  IN IF i < 0 THEN exp
     ELSE Call("ApplyFilters", <<Trim(Slice(exp, 0, i)), Slice(exp, i + 1, Len(exp))>>)

\* The delimiter pair of defaultTagRE.
DefaultDelimiters == <<(<<"{", "{">>), (<<"}", "}">>)>>

\* The number of characters one round of (?:.|\r?\n) (default pattern) or
\* (?:.|\n) (built pattern) takes at 0-based position i of text; 0 is no match.
InnerStep(text, i, isDefault) ==
  IF i >= Len(text) THEN 0
  ELSE LET c == text[i + 1]
       IN IF c \notin {"\n", "\r", LS, PS} THEN 1
          ELSE IF c = "\n" THEN 1
          ELSE IF isDefault /\ c = "\r" /\ i + 1 < Len(text) /\ text[i + 2] = "\n" THEN 2
          ELSE 0

RECURSIVE LazyClose(_, _, _, _)
\* The lazy quantifier: the 0-based position of the first closing delimiter
\* at or after q that only matchable characters separate from q; -1 if none.
LazyClose(text, q, close, isDefault) ==
  IF MatchesAt(text, q, close) THEN q
  ELSE LET k == InnerStep(text, q, isDefault)
       IN IF k = 0 THEN -1 ELSE LazyClose(text, q + k, close, isDefault)

\* The end of a match of the pattern that starts at 0-based position p: the
\* position of its closing delimiter, -1 when the pattern does not match at p.
MatchAt(text, p, d, isDefault) ==
  IF ~MatchesAt(text, p, d[1]) THEN -1
  ELSE LET q == p + Len(d[1])
           k == InnerStep(text, q, isDefault)
       IN IF k = 0 THEN -1 ELSE LazyClose(text, q + k, d[2], isDefault)

RECURSIVE FirstMatch(_, _, _, _)
\* The leftmost match at or after p: [index, close], index = -1 when none.
FirstMatch(text, p, d, isDefault) ==
  IF p > Len(text) THEN [index |-> -1, close |-> -1]
  ELSE LET c == Call("MatchAt", <<text, p, d, isDefault>>)
       IN IF c >= 0 THEN [index |-> p, close |-> c]
          ELSE FirstMatch(text, p + 1, d, isDefault)

\* RegExp.prototype.exec of a global pattern whose lastIndex is li:
\* [ok, index, all, inner, lastIndex].  The search starts at lastIndex; a
\* match leaves lastIndex at its end, a failure at 0.
RegExec(text, li, d, isDefault) ==
  LET m == FirstMatch(text, li, d, isDefault)
  IN IF m.index < 0
     THEN [ok |-> FALSE, index |-> -1, all |-> <<>>, inner |-> <<>>, lastIndex |-> 0]
     ELSE [ok |-> TRUE, index |-> m.index,
           all |-> Slice(text, m.index, m.close + Len(d[2])),
           inner |-> Slice(text, m.index + Len(d[1]), m.close),
           lastIndex |-> m.close + Len(d[2])]

\* The pattern objects parseText keeps between calls: lastIndex of
\* defaultTagRE, and of each pattern buildRegex has cached, by delimiter pair.
NoPatterns == [default |-> 0, cache |-> <<>>]

\* tagRE = delimiters ? buildRegex(delimiters) : defaultTagRE.  cached()
\* builds a pattern on the first use of a delimiter pair and returns the
\* same object afterwards.
TagRE(re, delimiters) ==
  IF delimiters = Undefined THEN [re |-> re, lastIndex |-> re.default]
  ELSE IF delimiters \in DOMAIN re.cache
       THEN [re |-> re, lastIndex |-> re.cache[delimiters]]
  ELSE [re |-> [re EXCEPT !.cache = [k \in DOMAIN re.cache \cup {delimiters} |->
                                       IF k = delimiters THEN 0 ELSE re.cache[k]]],
        lastIndex |-> 0]

\* tagRE.lastIndex = li
SetLastIndex(re, delimiters, li) ==
  IF delimiters = Undefined THEN [re EXCEPT !.default = li]
  ELSE [re EXCEPT !.cache[delimiters] = li]

\* A mutant of LiteralBefore: a literal is pushed before every match.
LiteralBeforeAlways(index, lastIndex) == index >= lastIndex

\* if (index > lastIndex): there is text between the last match and this one.
LiteralBefore(index, lastIndex) == index > lastIndex

\* A mutant of AfterMatch: the scan goes on behind the inner text of the
\* match, counted from its start.
AfterInner(index, match) == index + Len(match.inner)

\* lastIndex = index + match[0].length
AfterMatch(index, match) == index + Len(match.all)

RECURSIVE ParseTextLoop(_, _, _, _, _, _, _)
\* The while loop of parseText: [tokens, rawTokens, lastIndex (the local),
\* li (tagRE.lastIndex)].
ParseTextLoop(text, d, isDefault, li, lastIndex, tokens, rawTokens) ==
  LET match == Call("RegExec", <<text, li, d, isDefault>>)
  IN IF ~match.ok
     THEN [tokens |-> tokens, rawTokens |-> rawTokens,
           lastIndex |-> lastIndex, li |-> match.lastIndex]
     ELSE LET index == match.index
              lit == LiteralBefore(index, lastIndex)
              tokenValue == Slice(text, lastIndex, index)
              exp == Call("parseFilters", <<Trim(match.inner)>>)
              tokens1 == (IF lit THEN Append(tokens, JsonStringify(tokenValue)) ELSE tokens)
                         \o << <<"_", "s", "(">> \o exp \o <<")">> >>
              rawTokens1 == (IF lit THEN Append(rawTokens, [binding |-> FALSE, value |-> tokenValue])
                             ELSE rawTokens)
                            \o <<[binding |-> TRUE, value |-> exp]>>
          IN ParseTextLoop(text, d, isDefault, match.lastIndex,
                           AfterMatch(index, match), tokens1, rawTokens1)

RECURSIVE JoinChars(_, _)
\* Array.prototype.join on an array of character sequences.
JoinChars(ss, sep) ==
  IF ss = <<>> THEN <<>>
  ELSE IF Len(ss) = 1 THEN ss[1]
  ELSE ss[1] \o sep \o JoinChars(Tail(ss), sep)

\* A mutant of ResetLastIndex: the scan position is left where test() put it.
KeepLastIndex(re, delimiters, li) == SetLastIndex(re, delimiters, li)

\* let lastIndex = (tagRE.lastIndex = 0), after a successful test().
ResetLastIndex(re, delimiters, li) == SetLastIndex(re, delimiters, 0)

\* parseText: [found, expression, tokens, re].  found = FALSE is the
\* result undefined.
parseText(text, delimiters, re0) ==
  LET t == TagRE(re0, delimiters)
      isDefault == delimiters = Undefined
      d == IF isDefault THEN DefaultDelimiters ELSE delimiters
      test == Call("RegExec", <<text, t.lastIndex, d, isDefault>>)
  IN IF ~test.ok
     THEN [found |-> FALSE, expression |-> Undefined, tokens |-> <<>>,
           re |-> SetLastIndex(t.re, delimiters, test.lastIndex)]
     ELSE LET re1 == ResetLastIndex(t.re, delimiters, test.lastIndex)
              r == Call("ParseTextLoop", <<text, d, isDefault, TagRE(re1, delimiters).lastIndex,
                                 0, <<>>, <<>>>>)
              tail == r.lastIndex < Len(text)
              tokenValue == Slice(text, r.lastIndex, Len(text))
              tokens == IF tail THEN Append(r.tokens, JsonStringify(tokenValue)) ELSE r.tokens
              rawTokens == IF tail
                           THEN Append(r.rawTokens, [binding |-> FALSE, value |-> tokenValue])
                           ELSE r.rawTokens
          IN [found |-> TRUE, expression |-> JoinChars(tokens, <<"+">>),
              tokens |-> rawTokens, re |-> SetLastIndex(re1, delimiters, r.li)]

(***************************************************************************)
(* AST builder                                                             *)
(*                                                                         *)
(* The operators work on a record m of the whole machine: the tokenizer's  *)
(* variables (html, index, stack, lastTag), those of parse (nodes, root,   *)
(* currentParent, astStack, inVPre, inPre, warned), the module-level       *)
(* configuration parse sets (delimiters, platform), the pattern objects    *)
(* of the text parser (re), the options and template of the call, the      *)
(* diagnostics reported, the tokenizer events emitted, and whether an      *)
(* error was thrown.  An element is entered in the arena when it is        *)
(* created.  The hook lists preTransforms, transforms and postTransforms   *)
(* are plucked from options.modules and are empty; getTagNamespace is the  *)
(* default `no', and the environment is not a browser (isIE, isEdge and    *)
(* isServerRendering() are false).                                         *)
(***************************************************************************)

\* warn(msg, tip), the module-level sink.
WarnM(m, msg, tip) ==
  [m EXCEPT !.warnings = Append(@, [msg |-> msg, tip |-> tip])]

\* warnOnce of parse
warnOnce(m, msg) ==
  IF ~m.warned THEN WarnM([m EXCEPT !.warned = TRUE], msg, FALSE) ELSE m

\* The key of map that spells the string s, Undefined when there is none.
KeyOf(map, s) ==
  IF \E k \in DOMAIN map : Str(k) = s
  THEN CHOOSE k \in DOMAIN map : Str(k) = s
  ELSE Undefined

\* map[s]
MapGetS(map, s) ==
  LET k == KeyOf(map, s) IN IF k = Undefined THEN Undefined ELSE map[k]

MapPut(map, k, v) ==
  [x \in DOMAIN map \cup {k} |-> IF x = k THEN v ELSE map[x]]

RECURSIVE AttrsMapLoop(_, _, _, _)
AttrsMapLoop(attrs, i, map, m) ==
  IF i > Len(attrs) THEN [map |-> map, m |-> m]
  ELSE LET dup == ~m.opts.production /\ Truthy(MapGet(map, attrs[i].name))
       IN AttrsMapLoop(attrs, i + 1, MapPut(map, attrs[i].name, attrs[i].value),
                       IF dup THEN WarnM(m, "duplicate attribute", FALSE) ELSE m)

\* makeAttrsMap: [map, m]
makeAttrsMap(attrs, m) == AttrsMapLoop(attrs, 1, <<>>, m)

\* The list without its first entry named s (list.splice(i, 1); break).
RECURSIVE RemoveFirstNamed(_, _)
RemoveFirstNamed(list, s) ==
  IF list = <<>> THEN <<>>
  ELSE IF Str(list[1].name) = s THEN Tail(list)
  ELSE <<list[1]>> \o RemoveFirstNamed(Tail(list), s)

\* getAndRemoveAttr(el, name): [val, m].  The value comes from the map (the
\* last attribute of that name); the first entry of the list is removed.
getAndRemoveAttr(m, e, s) ==
  LET val == MapGetS(m.nodes[e].attrsMap, s)
  IN [val |-> val,
      m |-> IF val # Undefined
            THEN [m EXCEPT !.nodes[e].attrsList = RemoveFirstNamed(@, s)]
            ELSE m]

\* getBindingAttr(el, name): [val, m]
getBindingAttr(m, e, s) ==
  LET d1 == Call("getAndRemoveAttr", <<m, e, ":" \o s>>)
      d2 == IF Truthy(d1.val) THEN d1 ELSE Call("getAndRemoveAttr", <<d1.m, e, "v-bind:" \o s>>)
  IN IF d2.val # Undefined THEN [val |-> Call("parseFilters", <<d2.val>>), m |-> d2.m]
     ELSE LET st == Call("getAndRemoveAttr", <<d2.m, e, s>>)
          IN IF st.val # Undefined
             THEN [val |-> JsonStringify(st.val), m |-> st.m]
             ELSE [val |-> Undefined, m |-> st.m]

\* addAttr, addProp, addDirective
addAttr(m, e, name, value) ==
  [m EXCEPT !.nodes[e].attrs = Append(@, [name |-> name, value |-> value]),
            !.nodes[e].plain = FALSE]

addProp(m, e, name, value) ==
  [m EXCEPT !.nodes[e].props = Append(@, [name |-> name, value |-> value]),
            !.nodes[e].plain = FALSE]

addDirective(m, e, name, rawName, value, arg, modifiers) ==
  [m EXCEPT !.nodes[e].directives =
              Append(@, [name |-> name, rawName |-> rawName, value |-> value,
                         arg |-> arg, modifiers |-> modifiers]),
            !.nodes[e].plain = FALSE]

\* The handler list with value added under name: a second handler for a
\* name joins the first in an ordered sequence.
AddToEvents(events, name, value) ==
  IF \E i \in 1..Len(events) : events[i].name = name
  THEN [i \in 1..Len(events) |->
          IF events[i].name = name
          THEN [events[i] EXCEPT !.handlers = Append(@, value)]
          ELSE events[i]]
  ELSE Append(events, [name |-> name, handlers |-> <<value>>])

\* addHandler: the capture, once and passive modifiers mark the name, the
\* native modifier selects the native-event map.
addHandler(m, e, name, value, modifiers) ==
  LET Has(s) == \E i \in 1..Len(modifiers) : Str(modifiers[i]) = s
      n1 == IF Has("capture") THEN <<"!">> \o name ELSE name
      n2 == IF Has("once") THEN <<"~">> \o n1 ELSE n1
      n3 == IF Has("passive") THEN <<"&">> \o n2 ELSE n2
  IN IF Has("native")
     THEN [m EXCEPT !.nodes[e].nativeEvents = AddToEvents(@, n3, value),
                    !.nodes[e].plain = FALSE]
     ELSE [m EXCEPT !.nodes[e].events = AddToEvents(@, n3, value),
                    !.nodes[e].plain = FALSE]

\* genAssignmentCode(value, '$event') for a plain path.
genAssignmentCode(value) == value \o <<"=", "$", "e", "v", "e", "n", "t">>

\* Platform predicates of the web platform, by options.
isPreTag(m, tag) == m.platform.web /\ Str(tag) = "pre"

mustUseProp(m, tag, type, attr) ==
  /\ m.platform.web
  /\ \/ Str(attr) = "value" /\ Str(tag) \in {"input", "textarea", "option", "select", "progress"}
                            /\ (type = Undefined \/ Str(type) # "button")
     \/ Str(attr) = "selected" /\ Str(tag) = "option"
     \/ Str(attr) = "checked" /\ Str(tag) = "input"
     \/ Str(attr) = "muted" /\ Str(tag) = "video"

\* isTextTag, isForbiddenTag
isTextTag(n) == Str(n.tag) = "script" \/ Str(n.tag) = "style"

isForbiddenTag(n) ==
  \/ Str(n.tag) = "style"
  \/ /\ Str(n.tag) = "script"
     /\ LET type == MapGetS(n.attrsMap, "type")
        IN ~Truthy(type) \/ Str(type) = "text/javascript"

\* processPre
processPre(m, e) ==
  LET r == Call("getAndRemoveAttr", <<m, e, "v-pre">>)
  IN IF r.val # Undefined THEN [r.m EXCEPT !.nodes[e].pre = TRUE] ELSE r.m

\* processRawAttrs
processRawAttrs(m, e) ==
  LET list == m.nodes[e].attrsList
  IN IF list # <<>>
     THEN [m EXCEPT !.nodes[e].attrs =
             [i \in 1..Len(list) |->
                [name |-> list[i].name, value |-> JsonStringify(list[i].value)]]]
     ELSE IF ~m.nodes[e].pre THEN [m EXCEPT !.nodes[e].plain = TRUE]
     ELSE m

\* forAliasRE: the 0-based position of the first \s+(?:in|of)\s+ of exp at
\* or after i, with the position after it; [at |-> -1] when there is none.
RECURSIVE SkipSpaces(_, _)
SkipSpaces(cs, i) == IF i < Len(cs) /\ IsSpace(cs[i + 1]) THEN SkipSpaces(cs, i + 1) ELSE i

RECURSIVE ForAliasMatch(_, _)
ForAliasMatch(exp, i) ==
  IF i >= Len(exp) THEN [at |-> -1, after |-> -1]
  ELSE LET j == SkipSpaces(exp, i)
           kw == j > i /\ (MatchesAt(exp, j, <<"i", "n">>) \/ MatchesAt(exp, j, <<"o", "f">>))
           k == SkipSpaces(exp, j + 2)
       IN IF kw /\ k > j + 2 THEN [at |-> i, after |-> k]
          ELSE ForAliasMatch(exp, i + 1)

\* stripParensRE: /^\(|\)$/g replaced by ''.
StripParens(cs) ==
  LET a == IF cs # <<>> /\ cs[1] = "(" THEN Tail(cs) ELSE cs
  IN IF a # <<>> /\ a[Len(a)] = ")" THEN SubSeq(a, 1, Len(a) - 1) ELSE a

NoIterChar(cs) == \A i \in 1..Len(cs) : cs[i] \notin {",", "}", "]"}

\* forIteratorRE tried at the comma at 0-based position p of alias.
IteratorAt(alias, p) ==
  LET rest == Slice(alias, p + 1, Len(alias))
      c == IndexOfChar(rest, ",", 0)
  IN IF NoIterChar(rest) THEN [ok |-> TRUE, i1 |-> rest, i2 |-> Undefined]
     ELSE IF c >= 0 /\ NoIterChar(Slice(rest, 0, c))
             /\ NoIterChar(Slice(rest, c + 1, Len(rest)))
          THEN [ok |-> TRUE, i1 |-> Slice(rest, 0, c),
                i2 |-> Slice(rest, c + 1, Len(rest))]
     ELSE [ok |-> FALSE, i1 |-> Undefined, i2 |-> Undefined]

RECURSIVE IteratorMatch(_, _)
\* The leftmost match of forIteratorRE at or after i: [at, i1, i2].
IteratorMatch(alias, i) ==
  LET p == IndexOfChar(alias, ",", i)
  IN IF p < 0 THEN [at |-> -1, i1 |-> Undefined, i2 |-> Undefined]
     ELSE LET r == Call("IteratorAt", <<alias, p>>)
          IN IF r.ok THEN [at |-> p, i1 |-> r.i1, i2 |-> r.i2]
             ELSE IteratorMatch(alias, p + 1)

\* parseFor: [ok, for, alias, iterator1, iterator2]
parseFor(exp) ==
  LET inMatch == Call("ForAliasMatch", <<exp, 0>>)
      alias == StripParens(Trim(Slice(exp, 0, inMatch.at)))
      it == Call("IteratorMatch", <<alias, 0>>)
  IN IF inMatch.at < 0
     THEN [ok |-> FALSE, for |-> Undefined, alias |-> Undefined,
           iterator1 |-> Undefined, iterator2 |-> Undefined]
     ELSE IF it.at >= 0
     THEN [ok |-> TRUE, for |-> Trim(Slice(exp, inMatch.after, Len(exp))),
           alias |-> Trim(Slice(alias, 0, it.at)),
           iterator1 |-> Trim(it.i1),
           iterator2 |-> IF Truthy(it.i2) THEN Trim(it.i2) ELSE Undefined]
     ELSE [ok |-> TRUE, for |-> Trim(Slice(exp, inMatch.after, Len(exp))),
           alias |-> alias, iterator1 |-> Undefined, iterator2 |-> Undefined]

\* processFor
processFor(m, e) ==
  LET r == Call("getAndRemoveAttr", <<m, e, "v-for">>)
      res == Call("parseFor", <<r.val>>)
  IN IF ~Truthy(r.val) THEN r.m
     ELSE IF res.ok
     THEN [r.m EXCEPT !.nodes[e].for = res.for, !.nodes[e].alias = res.alias,
                      !.nodes[e].iterator1 = res.iterator1,
                      !.nodes[e].iterator2 = res.iterator2]
     ELSE IF ~r.m.opts.production THEN WarnM(r.m, "Invalid v-for expression", FALSE)
     ELSE r.m

\* A mutant of addIfCondition: the branch is put in front of the group.
addIfConditionFirst(m, e, condition) ==
  [m EXCEPT !.nodes[e].ifConditions = <<condition>> \o @]

\* addIfCondition
addIfCondition(m, e, condition) ==
  [m EXCEPT !.nodes[e].ifConditions = Append(@, condition)]

\* processIf
processIf(m, e) ==
  LET r == Call("getAndRemoveAttr", <<m, e, "v-if">>)
  IN IF Truthy(r.val)
     THEN addIfCondition([r.m EXCEPT !.nodes[e].if = r.val], e,
                         [exp |-> r.val, block |-> e])
     ELSE LET r1 == Call("getAndRemoveAttr", <<r.m, e, "v-else">>)
              m1 == IF r1.val # Undefined THEN [r1.m EXCEPT !.nodes[e].else = TRUE]
                    ELSE r1.m
              r2 == Call("getAndRemoveAttr", <<m1, e, "v-else-if">>)
          IN IF Truthy(r2.val) THEN [r2.m EXCEPT !.nodes[e].elseif = r2.val]
             ELSE r2.m

\* processOnce
processOnce(m, e) ==
  LET r == Call("getAndRemoveAttr", <<m, e, "v-once">>)
  IN IF r.val # Undefined THEN [r.m EXCEPT !.nodes[e].once = TRUE] ELSE r.m

\* processKey
processKey(m, e) ==
  LET r == Call("getBindingAttr", <<m, e, "key">>)
  IN IF Truthy(r.val)
     THEN LET m1 == IF ~r.m.opts.production /\ Str(r.m.nodes[e].tag) = "template"
                    THEN WarnM(r.m, "<template> cannot be keyed", FALSE)
                    ELSE r.m
          IN [m1 EXCEPT !.nodes[e].key = r.val]
     ELSE r.m

RECURSIVE checkInFor(_, _)
\* checkInFor, from node p up.
checkInFor(nodes, p) ==
  IF p = 0 THEN FALSE
  ELSE IF nodes[p].for # Undefined THEN TRUE
  ELSE checkInFor(nodes, nodes[p].parent)

\* processRef
processRef(m, e) ==
  LET r == Call("getBindingAttr", <<m, e, "ref">>)
  IN IF Truthy(r.val)
     THEN [r.m EXCEPT !.nodes[e].ref = r.val,
                      !.nodes[e].refInFor = checkInFor(r.m.nodes, e)]
     ELSE r.m

\* processSlot
processSlot(m, e) ==
  IF Str(m.nodes[e].tag) = "slot"
  THEN LET r == Call("getBindingAttr", <<m, e, "name">>)
           m1 == [r.m EXCEPT !.nodes[e].slotName = r.val]
       IN IF ~m1.opts.production /\ Truthy(m1.nodes[e].key)
          THEN WarnM(m1, "key does not work on <slot>", FALSE)
          ELSE m1
  ELSE LET m2 ==
             IF Str(m.nodes[e].tag) = "template"
             THEN LET s == Call("getAndRemoveAttr", <<m, e, "scope">>)
                      m1 == IF ~s.m.opts.production /\ Truthy(s.val)
                            THEN WarnM(s.m, "the \"scope\" attribute for scoped slots have been deprecated", TRUE)
                            ELSE s.m
                      t == IF Truthy(s.val) THEN [val |-> s.val, m |-> m1]
                           ELSE Call("getAndRemoveAttr", <<m1, e, "slot-scope">>)
                  IN [t.m EXCEPT !.nodes[e].slotScope = t.val]
             ELSE LET s == Call("getAndRemoveAttr", <<m, e, "slot-scope">>)
                  IN IF Truthy(s.val)
                     THEN LET m1 == IF ~s.m.opts.production
                                       /\ Truthy(MapGetS(s.m.nodes[e].attrsMap, "v-for"))
                                    THEN WarnM(s.m, "Ambiguous combined usage of slot-scope and v-for", TRUE)
                                    ELSE s.m
                          IN [m1 EXCEPT !.nodes[e].slotScope = s.val]
                     ELSE s.m
           r == Call("getBindingAttr", <<m2, e, "slot">>)
       IN IF Truthy(r.val)
          THEN LET target == IF r.val = <<"\"", "\"">>
                             THEN <<"\"", "d", "e", "f", "a", "u", "l", "t", "\"">>
                             ELSE r.val
                   m3 == [r.m EXCEPT !.nodes[e].slotTarget = target]
               IN IF Str(m3.nodes[e].tag) # "template" /\ ~Truthy(m3.nodes[e].slotScope)
                  THEN addAttr(m3, e, <<"s", "l", "o", "t">>, r.val)
                  ELSE m3
          ELSE r.m

\* processComponent
processComponent(m, e) ==
  LET b == Call("getBindingAttr", <<m, e, "is">>)
      m1 == IF Truthy(b.val) THEN [b.m EXCEPT !.nodes[e].component = b.val] ELSE b.m
      r == Call("getAndRemoveAttr", <<m1, e, "inline-template">>)
  IN IF r.val # Undefined THEN [r.m EXCEPT !.nodes[e].inlineTemplate = TRUE] ELSE r.m

\* dirRE, bindRE, onRE: the length of the prefix matched, 0 when none.
DirPrefix(name) ==
  IF MatchesAt(name, 0, <<"v", "-">>) THEN 2
  ELSE IF MatchesAt(name, 0, <<"@">>) \/ MatchesAt(name, 0, <<":">>) THEN 1
  ELSE 0

BindPrefix(name) ==
  IF MatchesAt(name, 0, <<":">>) THEN 1
  ELSE IF MatchesAt(name, 0, <<"v", "-", "b", "i", "n", "d", ":">>) THEN 7
  ELSE 0

OnPrefix(name) ==
  IF MatchesAt(name, 0, <<"@">>) THEN 1
  ELSE IF MatchesAt(name, 0, <<"v", "-", "o", "n", ":">>) THEN 5
  ELSE 0

RECURSIVE NotDotRun(_, _)
\* The end of the run of characters other than '.' that starts at i.
NotDotRun(cs, i) == IF i < Len(cs) /\ cs[i + 1] # "." THEN NotDotRun(cs, i + 1) ELSE i

RECURSIVE ModifierScan(_, _, _, _)
\* The matches of modifierRE = /\.[^.]+/g in name from i on: the modifier
\* names found (mods) and the name without the matches (kept).
ModifierScan(name, i, mods, kept) ==
  IF i >= Len(name) THEN [mods |-> mods, kept |-> kept]
  ELSE IF name[i + 1] = "." /\ NotDotRun(name, i + 1) > i + 1
       THEN LET j == NotDotRun(name, i + 1)
            IN ModifierScan(name, j, Append(mods, Slice(name, i + 1, j)), kept)
  ELSE ModifierScan(name, i + 1, mods, Append(kept, name[i + 1]))

\* The keys of the modifier object in insertion order: a name set twice
\* keeps its first place.
RECURSIVE Dedup(_)
Dedup(s) ==
  IF s = <<>> THEN <<>>
  ELSE LET r == Dedup(SubSeq(s, 1, Len(s) - 1))
       IN IF s[Len(s)] \in Range(r) THEN r ELSE Append(r, s[Len(s)])

\* parseModifiers: the modifier names, <<>> for undefined.
parseModifiers(name) == Dedup(ModifierScan(name, 0, <<>>, <<>>).mods)

RECURSIVE checkForAliasModel(_, _, _)
\* checkForAliasModel, from node p up.
checkForAliasModel(m, p, value) ==
  IF p = 0 THEN m
  ELSE checkForAliasModel(
         IF Truthy(m.nodes[p].for) /\ m.nodes[p].alias = value
         THEN WarnM(m, "You are binding v-model directly to a v-for iteration alias", FALSE)
         ELSE m,
         m.nodes[p].parent, value)

\* The modifiers of an attribute name, one of them being s.
HasMod(mods, s) == \E i \in 1..Len(mods) : Str(mods[i]) = s

\* if (!el.component && platformMustUseProp(el.tag, el.attrsMap.type, name))
MustUseProp(m, e, name) ==
  ~Truthy(m.nodes[e].component)
  /\ mustUseProp(m, m.nodes[e].tag, MapGetS(m.nodes[e].attrsMap, "type"), name)

\* if (modifiers.prop) { name = camelize(name); if (name === 'innerHtml') name = 'innerHTML' }
PropName(name, isProp) ==
  IF ~isProp THEN name
  ELSE IF Str(Call("camelize", <<name>>)) = "innerHtml"
  THEN <<"i", "n", "n", "e", "r", "H", "T", "M", "L">>
  ELSE Call("camelize", <<name>>)

\* if (modifiers.camel) name = camelize(name)
CamelName(name, camel) == IF camel THEN Call("camelize", <<name>>) ELSE name

\* The name of a v-bind attribute after the prop and camel modifiers.
BoundName(name, modifiers) ==
  CamelName(PropName(name, HasMod(modifiers, "prop")), HasMod(modifiers, "camel"))

\* The .sync modifier of a v-bind attribute.
BindSync(m, e, name, value, modifiers) ==
  IF HasMod(modifiers, "sync")
  THEN Call("addHandler", <<m, e, <<"u", "p", "d", "a", "t", "e", ":">> \o Call("camelize", <<name>>),
                  genAssignmentCode(value), <<>>>>)
  ELSE m

\* The end of the v-bind branch: the attribute becomes a prop or an attr.
BindAdd(m, e, name, value, isProp) ==
  IF isProp \/ Call("MustUseProp", <<m, e, name>>)
  THEN addProp(m, e, name, value) ELSE addAttr(m, e, name, value)

\* The v-bind branch of processAttrs, name being the attribute name after
\* the prefix and value the filtered value.
ProcessBind(m, e, name, value, modifiers) ==
  BindAdd(BindSync(IF ~m.opts.production /\ Trim(value) = <<>>
                   THEN WarnM(m, "The value for a v-bind expression cannot be empty", FALSE)
                   ELSE m,
                   e, name, value, modifiers),
          e, name, value, HasMod(modifiers, "prop"))

\* The end of the branch of the normal directives.
DirectiveAdded(m, e, name, value) ==
  IF ~m.opts.production /\ Str(name) = "model"
  THEN checkForAliasModel(m, e, value) ELSE m

\* The branch of processAttrs for the normal directives: name1 is the name
\* after the prefix and c the index of its argument separator.
ProcessDirective(m, e, rawName, name1, c, value, modifiers) ==
  IF c >= 0 /\ c + 1 < Len(name1)
  THEN DirectiveAdded(
         addDirective(m, e, Slice(name1, 0, c), rawName, value,
                      Slice(name1, c + 1, Len(name1)), modifiers),
         e, Slice(name1, 0, c), value)
  ELSE DirectiveAdded(
         addDirective(m, e, name1, rawName, value,
                      IF c >= 0 THEN <<>> ELSE Undefined, modifiers),
         e, name1, value)

\* The branch of processAttrs for the directives, name0 being the attribute
\* name without its modifiers.
ProcessDirectiveAttr(m, e, attr, name0, modifiers) ==
  IF BindPrefix(name0) > 0
  THEN Call("ProcessBind", <<m, e, BoundName(Slice(name0, BindPrefix(name0), Len(name0)), modifiers),
                   Call("parseFilters", <<attr.value>>), modifiers>>)
  ELSE IF OnPrefix(name0) > 0
  THEN Call("addHandler", <<m, e, Slice(name0, OnPrefix(name0), Len(name0)), attr.value, modifiers>>)
  ELSE Call("ProcessDirective", <<m, e, attr.name, Slice(name0, DirPrefix(name0), Len(name0)),
                        IndexOfChar(Slice(name0, DirPrefix(name0), Len(name0)), ":", 0),
                        attr.value, modifiers>>)

\* The end of the branch of the literal attributes.
LiteralAdded(m, e, rawName) ==
  IF Str(rawName) = "muted" /\ Call("MustUseProp", <<m, e, rawName>>)
  THEN addProp(m, e, rawName, <<"t", "r", "u", "e">>)
  ELSE m

\* The branch of processAttrs for a literal attribute, res being what
\* parseText found in its value.
ProcessLiteralAttr(m, e, attr, res) ==
  LiteralAdded(
    addAttr(IF res.found
            THEN WarnM([m EXCEPT !.re = res.re],
                       "Interpolation inside attributes has been removed", FALSE)
            ELSE [m EXCEPT !.re = res.re],
            e, attr.name, JsonStringify(attr.value)),
    e, attr.name)

\* The modifiers of a directive are cut from its name.
WithoutModifiers(rawName, modifiers) ==
  IF modifiers # <<>> THEN ModifierScan(rawName, 0, <<>>, <<>>).kept ELSE rawName

\* The body of the loop of processAttrs for one attribute of the list.
ProcessAttr(m, e, attr) ==
  IF DirPrefix(attr.name) > 0
  THEN Call("ProcessDirectiveAttr", <<[m EXCEPT !.nodes[e].hasBindings = TRUE], e, attr,
                            WithoutModifiers(attr.name, parseModifiers(attr.name)),
                            parseModifiers(attr.name)>>)
  ELSE ProcessLiteralAttr(m, e, attr,
                          IF ~m.opts.production
                          THEN Call("parseText", <<attr.value, m.delimiters, m.re>>)
                          ELSE [found |-> FALSE, re |-> m.re])

RECURSIVE ProcessAttrsLoop(_, _, _, _)
ProcessAttrsLoop(m, e, list, i) ==
  IF i > Len(list) THEN m
  ELSE ProcessAttrsLoop(Call("ProcessAttr", <<m, e, list[i]>>), e, list, i + 1)

\* processAttrs
processAttrs(m, e) == ProcessAttrsLoop(m, e, m.nodes[e].attrsList, 1)

\* processElement
processElement(m, e) ==
  LET m1 == processKey(m, e)
      m2 == [m1 EXCEPT !.nodes[e].plain =
               ~Truthy(m1.nodes[e].key) /\ m1.nodes[e].attrsList = <<>>]
  IN processAttrs(Call("processComponent", <<Call("processSlot", <<processRef(m2, e), e>>), e>>), e)

\* he.decode on the named entities lt, gt, amp and quot.
RECURSIVE decodeHTML(_)
decodeHTML(cs) ==
  IF cs = <<>> THEN <<>>
  ELSE IF MatchesAt(cs, 0, <<"&", "l", "t", ";">>)
       THEN <<"<">> \o decodeHTML(SubSeq(cs, 5, Len(cs)))
  ELSE IF MatchesAt(cs, 0, <<"&", "g", "t", ";">>)
       THEN <<">">> \o decodeHTML(SubSeq(cs, 5, Len(cs)))
  ELSE IF MatchesAt(cs, 0, <<"&", "a", "m", "p", ";">>)
       THEN <<"&">> \o decodeHTML(SubSeq(cs, 6, Len(cs)))
  ELSE IF MatchesAt(cs, 0, <<"&", "q", "u", "o", "t", ";">>)
       THEN <<"\"">> \o decodeHTML(SubSeq(cs, 7, Len(cs)))
  ELSE <<cs[1]>> \o decodeHTML(Tail(cs))

\* closeElement
\* A mutant of closeElement: inVPre is not reset.
closeElementInVPre(m, e) ==
  IF isPreTag(m, m.nodes[e].tag) THEN [m EXCEPT !.inPre = FALSE] ELSE m

closeElement(m, e) ==
  LET m1 == IF m.nodes[e].pre THEN [m EXCEPT !.inVPre = FALSE] ELSE m
  IN IF isPreTag(m1, m1.nodes[e].tag) THEN [m1 EXCEPT !.inPre = FALSE] ELSE m1

\* checkRootConstraints
checkRootConstraints(m, e) ==
  IF m.opts.production THEN m
  ELSE LET m1 == IF Str(m.nodes[e].tag) \in {"slot", "template"}
                 THEN warnOnce(m, "Cannot use <slot> or <template> as component root element")
                 ELSE m
       IN IF KeyOf(m1.nodes[e].attrsMap, "v-for") # Undefined
          THEN warnOnce(m1, "Cannot use v-for on stateful component root element")
          ELSE m1

RECURSIVE findPrevElement(_, _)
\* findPrevElement(parent.children), p being the parent: [prev, m], prev = 0
\* when no element is found.  Every child passed over is popped.
findPrevElement(m, p) ==
  LET children == m.nodes[p].children
  IN IF children = <<>> THEN [prev |-> 0, m |-> m]
     ELSE LET c == children[Len(children)]
          IN IF m.nodes[c].type = 1 THEN [prev |-> c, m |-> m]
             ELSE LET m1 == IF ~m.opts.production /\ m.nodes[c].text # <<" ">>
                            THEN WarnM(m, "text between v-if and v-else(-if) will be ignored", FALSE)
                            ELSE m
                  IN findPrevElement(
                       [m1 EXCEPT !.nodes[p].children = SubSeq(@, 1, Len(@) - 1)], p)

\* processIfConditions
processIfConditions(m, e, parent) ==
  LET r == findPrevElement(m, parent)
  IN IF r.prev # 0 /\ Truthy(r.m.nodes[r.prev].if)
     THEN addIfCondition(r.m, r.prev, [exp |-> r.m.nodes[e].elseif, block |-> e])
     ELSE IF ~r.m.opts.production
     THEN WarnM(r.m, "v-else(-if) used on element without corresponding v-if", FALSE)
     ELSE r.m

\* (currentParent.scopedSlots || (currentParent.scopedSlots = {}))[name] = el
PutSlot(slots, name, e) ==
  IF \E i \in 1..Len(slots) : slots[i].key = name
  THEN [i \in 1..Len(slots) |->
          IF slots[i].key = name THEN [key |-> name, el |-> e] ELSE slots[i]]
  ELSE Append(slots, [key |-> name, el |-> e])

\* The tree management of the start handler for element e.
TreeManagement(m, e) ==
  LET el == m.nodes[e]
      m1 == IF m.root = 0 THEN Call("checkRootConstraints", <<[m EXCEPT !.root = e], e>>)
            ELSE IF m.astStack = <<>>
            THEN IF Truthy(m.nodes[m.root].if) /\ (Truthy(el.elseif) \/ el.else)
                 THEN addIfCondition(Call("checkRootConstraints", <<m, e>>), m.root,
                                     [exp |-> el.elseif, block |-> e])
                 ELSE IF ~m.opts.production
                 THEN warnOnce(m, "Component template should contain exactly one root element")
                 ELSE m
            ELSE m
      cp == m1.currentParent
  IN IF cp # 0 /\ ~el.forbidden
     THEN IF Truthy(el.elseif) \/ el.else THEN Call("processIfConditions", <<m1, e, cp>>)
          ELSE IF Truthy(el.slotScope)
          THEN LET name == IF Truthy(el.slotTarget) THEN el.slotTarget
                           ELSE <<"\"", "d", "e", "f", "a", "u", "l", "t", "\"">>
               IN [m1 EXCEPT !.nodes[cp].plain = FALSE,
                             !.nodes[cp].scopedSlots = PutSlot(@, name, e)]
          ELSE [m1 EXCEPT !.nodes[cp].children = Append(@, e),
                          !.nodes[e].parent = cp]
     ELSE m1

\* createASTElement(tag, attrs, currentParent): the element is the new last
\* node.
createASTElement(m0, tag, attrs, am) ==
  [am.m EXCEPT !.nodes = Append(@, [BlankNode EXCEPT !.type = 1, !.tag = tag,
                                      !.attrsList = attrs, !.attrsMap = am.map,
                                      !.parent = m0.currentParent])]

\* if (isForbiddenTag(element) && !isServerRendering()) of the start handler.
MarkForbidden(m, e) ==
  IF ~Call("isForbiddenTag", <<m.nodes[e]>>) THEN m
  ELSE IF m.opts.production THEN [m EXCEPT !.nodes[e].forbidden = TRUE]
  ELSE WarnM([m EXCEPT !.nodes[e].forbidden = TRUE],
             "Templates should only be responsible for mapping the state to the UI", FALSE)

\* if (element.pre) inVPre = true
EnterVPre(p, e) == IF p.nodes[e].pre THEN [p EXCEPT !.inVPre = TRUE] ELSE p

\* if (!inVPre) { processPre(element); ... }
StartPre(m, e) == IF m.inVPre THEN m ELSE EnterVPre(processPre(m, e), e)

\* if (platformIsPreTag(element.tag)) inPre = true
StartPreTag(m, tag) == IF isPreTag(m, tag) THEN [m EXCEPT !.inPre = TRUE] ELSE m

\* if (inVPre) processRawAttrs(element) else if (!element.processed) { ... }
StartProcess(m, e) ==
  IF m.inVPre THEN processRawAttrs(m, e)
  ELSE Call("processElement", <<processOnce(Call("processIf", <<processFor(m, e), e>>), e), e>>)

\* if (!unary) { currentParent = element; stack.push(element) } else closeElement(element)
StartPush(m, e, unary) ==
  IF ~unary THEN [m EXCEPT !.currentParent = e, !.astStack = Append(@, e)]
  ELSE closeElement(m, e)

\* The start handler for the element that becomes node e.
StartElement(m0, e, tag, attrs, unary) ==
  StartPush(
    Call("TreeManagement", <<
      Call("StartProcess", <<
        StartPreTag(
          StartPre(
            MarkForbidden(createASTElement(m0, tag, attrs, makeAttrsMap(attrs, m0)), e),
            e),
          tag),
        e>>),
      e>>),
    e, unary)

\* The start handler of parse.
start(m0, tag, attrs, unary) == Call("StartElement", <<m0, Len(m0.nodes) + 1, tag, attrs, unary>>)

\* A mutant of end: the element closed stays on the stack of the builder.
endKeepsOpen(m) ==
  IF m.astStack = <<>> THEN [m EXCEPT !.threw = TRUE]
  ELSE closeElement(m, m.astStack[Len(m.astStack)])

\* The end handler of parse.  On an empty stack stack[stack.length - 1] is
\* undefined and reading its children throws a TypeError.
end(m) ==
  IF m.astStack = <<>> THEN [m EXCEPT !.threw = TRUE]
  ELSE LET e == m.astStack[Len(m.astStack)]
           children == m.nodes[e].children
           lastNode == children[Len(children)]
           m1 == IF children # <<>> /\ m.nodes[lastNode].type = 3
                    /\ m.nodes[lastNode].text = <<" ">> /\ ~m.inPre
                 THEN [m EXCEPT !.nodes[e].children = SubSeq(@, 1, Len(@) - 1)]
                 ELSE m
           stack1 == SubSeq(m1.astStack, 1, Len(m1.astStack) - 1)
           m2 == [m1 EXCEPT !.astStack = stack1,
                            !.currentParent = IF stack1 = <<>> THEN 0
                                              ELSE stack1[Len(stack1)]]
       IN closeElement(m2, e)

\* The chars handler of parse.
chars(m, text0) ==
  IF m.currentParent = 0
  THEN IF ~m.opts.production
       THEN IF text0 = m.template
            THEN warnOnce(m, "Component template requires a root element, rather than just text")
            ELSE IF Trim(text0) # <<>>
            THEN warnOnce(m, "text outside root element will be ignored")
            ELSE m
       ELSE m
  ELSE LET cp == m.currentParent
           children == m.nodes[cp].children
           text == IF m.inPre \/ Trim(text0) # <<>>
                   THEN (IF isTextTag(m.nodes[cp]) THEN text0 ELSE decodeHTML(text0))
                   ELSE IF m.opts.preserveWhitespace /\ children # <<>> THEN <<" ">>
                   ELSE <<>>
       IN IF text = <<>> THEN m
          ELSE LET res == IF ~m.inVPre /\ text # <<" ">>
                          THEN Call("parseText", <<text, m.delimiters, m.re>>)
                          ELSE [found |-> FALSE, re |-> m.re]
                   m1 == [m EXCEPT !.re = res.re]
                   c == Len(m1.nodes) + 1
               IN IF res.found
                  THEN [m1 EXCEPT
                          !.nodes = Append(@, [BlankNode EXCEPT !.type = 2,
                                                 !.expression = res.expression,
                                                 !.tokens = res.tokens, !.text = text]),
                          !.nodes[cp].children = Append(@, c)]
                  ELSE IF text # <<" ">> \/ children = <<>>
                          \/ m1.nodes[children[Len(children)]].text # <<" ">>
                  THEN [m1 EXCEPT
                          !.nodes = Append(@, [BlankNode EXCEPT !.type = 3, !.text = text]),
                          !.nodes[cp].children = Append(@, c)]
                  ELSE m1

\* A mutant of comment: a comment outside every element is dropped.
commentGuarded(m, text) ==
  IF m.currentParent = 0 THEN m
  ELSE LET c == Len(m.nodes) + 1
       IN [m EXCEPT !.nodes = Append(@, [BlankNode EXCEPT !.type = 3, !.text = text,
                                                          !.isComment = TRUE]),
                    !.nodes[m.currentParent].children = Append(@, c)]

\* The comment handler of parse.  With no element open currentParent is
\* undefined and reading its children throws a TypeError.
comment(m, text) ==
  IF m.currentParent = 0 THEN [m EXCEPT !.threw = TRUE]
  ELSE LET c == Len(m.nodes) + 1
       IN [m EXCEPT !.nodes = Append(@, [BlankNode EXCEPT !.type = 3, !.text = text,
                                                          !.isComment = TRUE]),
                    !.nodes[m.currentParent].children = Append(@, c)]

(***************************************************************************)
(* Tokenizer                                                               *)
(***************************************************************************)

\* A tokenizer event, recorded as the handler is called.
Emit(m, ev) == [m EXCEPT !.events = Append(@, ev)]

\* advance(n)
advance(m, n) ==
  [m EXCEPT !.index = @ + n, !.html = SubSeq(@, n + 1, Len(@))]

\* html.indexOf(pat, from), -1 when absent.
RECURSIVE IndexOfSeq(_, _, _)
IndexOfSeq(cs, pat, i) ==
  IF i + Len(pat) > Len(cs) THEN -1
  ELSE IF MatchesAt(cs, i, pat) THEN i
  ELSE IndexOfSeq(cs, pat, i + 1)

\* ncname = [a-zA-Z_][\w\-\.]* at 0-based position i: the position after
\* it, -1 when it does not match.
IsNameStart(c) == c \in Range(LowerCase) \cup Range(UpperCase) \cup {"_"}
IsNameChar(c) == IsWordChar(c) \/ c \in {"-", "."}

RECURSIVE NameRun(_, _)
NameRun(cs, i) == IF i < Len(cs) /\ IsNameChar(cs[i + 1]) THEN NameRun(cs, i + 1) ELSE i

NcName(cs, i) == IF i < Len(cs) /\ IsNameStart(cs[i + 1]) THEN NameRun(cs, i + 1) ELSE -1

\* qnameCapture = ((?:ncname\:)?ncname) at position i: the position after it.
QName(cs, i) ==
  LET a == NcName(cs, i)
  IN IF a < 0 THEN -1
     ELSE IF a < Len(cs) /\ cs[a + 1] = ":" /\ NcName(cs, a + 1) >= 0
          THEN NcName(cs, a + 1)
     ELSE a

\* startTagOpen = ^<qname: the position after the name, -1 for no match.
StartTagOpen(cs) ==
  IF MatchesAt(cs, 0, <<"<">>) THEN Call("QName", <<cs, 1>>) ELSE -1

\* endTag = ^<\/qname[^>]*>: [ok, name, len].
EndTagMatch(cs) ==
  LET a == IF MatchesAt(cs, 0, <<"<", "/">>) THEN Call("QName", <<cs, 2>>) ELSE -1
      g == IF a >= 0 THEN IndexOfChar(cs, ">", a) ELSE -1
  IN IF g >= 0 THEN [ok |-> TRUE, name |-> Slice(cs, 2, a), len |-> g + 1]
     ELSE [ok |-> FALSE, name |-> Undefined, len |-> 0]

\* comment = /^<!\--/ and conditionalComment = /^<!\[/
IsComment(cs) == MatchesAt(cs, 0, <<"<", "!", "-", "-">>)
IsConditionalComment(cs) == MatchesAt(cs, 0, <<"<", "!", "[">>)

\* doctype = /^<!DOCTYPE [^>]+>/i: the length matched, 0 for no match.
DoctypeMatch(cs) ==
  LET head == <<"<", "!", "d", "o", "c", "t", "y", "p", "e", " ">>
      g == IndexOfChar(cs, ">", Len(head))
  IN IF Len(cs) >= Len(head) /\ toLowerCase(SubSeq(cs, 1, Len(head))) = head
        /\ g > Len(head)
     THEN g + 1 ELSE 0

\* startTagClose = /^\s*(\/?)>/: [ok, unarySlash, len].
StartTagClose(cs) ==
  LET i == SkipSpaces(cs, 0)
      slash == i < Len(cs) /\ cs[i + 1] = "/"
      j == IF slash THEN i + 1 ELSE i
  IN IF j < Len(cs) /\ cs[j + 1] = ">"
     THEN [ok |-> TRUE, unarySlash |-> slash, len |-> j + 1]
     ELSE [ok |-> FALSE, unarySlash |-> FALSE, len |-> 0]

RECURSIVE RunOf(_, _, _)
\* The end of the run of characters outside the set `not' that starts at i.
RunOf(cs, i, not) ==
  IF i < Len(cs) /\ cs[i + 1] \notin not THEN RunOf(cs, i + 1, not) ELSE i

RECURSIVE RunOfChar(_, _, _)
RunOfChar(cs, i, c) == IF i < Len(cs) /\ cs[i + 1] = c THEN RunOfChar(cs, i + 1, c) ELSE i

Spaces == {" ", "\n", "\t", "\r"}

\* The value part of the attribute pattern, (?:"([^"]*)"+|'([^']*)'+|
\* (unquoted run)), at position k: [ok, value, end].  The alphabet of the
\* model has no grave accent, the one further character an unquoted value
\* excludes.
AttrValue(cs, k) ==
  LET quote == IF k < Len(cs) /\ cs[k + 1] \in {"\"", "'"} THEN cs[k + 1] ELSE ""
      q == IF quote # "" THEN IndexOfChar(cs, quote, k + 1) ELSE -1
      u == RunOf(cs, k, Spaces \cup {"\"", "'", "=", "<", ">"})
  IN IF quote # ""
     THEN IF q >= 0
          THEN [ok |-> TRUE, value |-> Slice(cs, k + 1, q), end |-> RunOfChar(cs, q, quote)]
          ELSE [ok |-> FALSE, value |-> <<>>, end |-> k]
     ELSE IF u > k THEN [ok |-> TRUE, value |-> Slice(cs, k, u), end |-> u]
     ELSE [ok |-> FALSE, value |-> <<>>, end |-> k]

\* The attribute pattern at the start of cs: [ok, name, value, len].  value
\* is args[3] || args[4] || args[5] || ''.
AttributeMatch(cs) ==
  LET i == SkipSpaces(cs, 0)
      j == RunOf(cs, i, Spaces \cup {"\"", "'", "<", ">", "/", "="})
      e == SkipSpaces(cs, j)
      v == Call("AttrValue", <<cs, SkipSpaces(cs, e + 1)>>)
  IN IF j = i THEN [ok |-> FALSE, name |-> <<>>, value |-> <<>>, len |-> 0]
     ELSE IF e < Len(cs) /\ cs[e + 1] = "=" /\ v.ok
          THEN [ok |-> TRUE, name |-> Slice(cs, i, j), value |-> v.value, len |-> v.end]
     ELSE [ok |-> TRUE, name |-> Slice(cs, i, j), value |-> <<>>, len |-> j]

\* decodeAttr with shouldDecodeNewlines false: the pattern encodedAttr.
decodeAttr(value) == decodeHTML(value)

\* Tag tables of the web platform, and the tables of the tokenizer.
isUnaryTag(m, tag) ==
  m.opts.web /\ Str(tag) \in {"area", "base", "br", "col", "embed", "frame", "hr",
                              "img", "input", "isindex", "keygen", "link", "meta",
                              "param", "source", "track", "wbr"}

canBeLeftOpenTag(m, tag) ==
  m.opts.web /\ Str(tag) \in {"colgroup", "dd", "dt", "li", "options", "p", "td",
                              "tfoot", "th", "thead", "tr", "source"}

isNonPhrasingTag(tag) ==
  Str(tag) \in {"address", "article", "aside", "base", "blockquote", "body",
                "caption", "col", "colgroup", "dd", "details", "dialog", "div",
                "dl", "dt", "fieldset", "figcaption", "figure", "footer", "form",
                "h1", "h2", "h3", "h4", "h5", "h6", "head", "header", "hgroup",
                "hr", "html", "legend", "li", "menuitem", "meta", "optgroup",
                "option", "param", "rp", "rt", "source", "style", "summary",
                "tbody", "td", "tfoot", "th", "thead", "title", "tr", "track"}

\* A mutant of isPlainTextElement: textarea is not in the map.
isPlainTextElementNoTextarea(tag) ==
  tag # Undefined /\ Str(toLowerCase(tag)) \in {"script", "style"}

isPlainTextElement(tag) ==
  tag # Undefined /\ Str(toLowerCase(tag)) \in {"script", "style", "textarea"}

isIgnoreNewlineTag(tag) == Str(toLowerCase(tag)) \in {"pre", "textarea"}

shouldIgnoreFirstNewline(tag, html) ==
  tag # Undefined /\ isIgnoreNewlineTag(tag) /\ html # <<>> /\ html[1] = "\n"

\* The handlers of parse as parseHTML calls them: once a handler has
\* thrown, the error is on its way out of parseHTML and nothing else runs.
\* The handler has returned to the tokenizer: the depths of the tokenizer's
\* stack and of the builder's are noted.
Returned(m) ==
  IF m.threw THEN m
  ELSE [m EXCEPT !.depths = Append(@, [tokenizer |-> Len(m.stack),
                                       builder |-> Len(m.astStack)])]

CallStart(m, tag, attrs, unary) ==
  IF m.threw THEN m
  ELSE Returned(start(Emit(m, [ev |-> "start", tag |-> tag, unary |-> unary]),
                      tag, attrs, unary))

CallEnd(m, tag) ==
  IF m.threw THEN m
  ELSE Returned(Call("end", <<Emit(m, [ev |-> "end", tag |-> tag])>>))

CallChars(m, text) ==
  IF m.threw THEN m
  ELSE Returned(Call("chars", <<Emit(m, [ev |-> "chars", text |-> text]), text>>))

CallComment(m, text) ==
  IF m.threw THEN m
  ELSE Returned(comment(Emit(m, [ev |-> "comment", text |-> text]), text))

\* A mutant of StackPos: the innermost open element is taken for the match.
StackPosTop(stack, pos, lowerCasedTagName) == pos

RECURSIVE StackPos(_, _, _)
\* The topmost position of stack (0-based, from pos down) whose entry has
\* the lower-cased tag name, -1 when there is none.
StackPos(stack, pos, lowerCasedTagName) ==
  IF pos < 0 THEN -1
  ELSE IF stack[pos + 1].lowerCasedTag = lowerCasedTagName THEN pos
  ELSE StackPos(stack, pos - 1, lowerCasedTagName)

RECURSIVE CloseLoopOutermostFirst(_, _, _, _)
\* A mutant of CloseLoop: the elements are closed from the match upwards.
CloseLoopOutermostFirst(m, i, pos, tagName) ==
  IF i < pos \/ m.threw THEN m
  ELSE LET m1 == IF ~m.opts.production /\ (i > pos \/ tagName = Undefined)
                 THEN WarnM(m, "tag has no matching end tag", FALSE) ELSE m
       IN CallEnd(CloseLoopOutermostFirst(m1, i - 1, pos, tagName), m.stack[i + 1].tag)

RECURSIVE CloseLoop(_, _, _, _)
\* The closing loop of parseEndTag, from stack position i down to pos.
CloseLoop(m, i, pos, tagName) ==
  IF i < pos \/ m.threw THEN m
  ELSE LET m1 == IF ~m.opts.production /\ (i > pos \/ tagName = Undefined)
                 THEN WarnM(m, "tag has no matching end tag", FALSE) ELSE m
       IN CloseLoop(CallEnd(m1, m.stack[i + 1].tag), i - 1, pos, tagName)

\* A mutant of Truncate: the closed elements stay on the stack.
TruncateNothing(stack, pos) == stack

\* stack.length = pos
Truncate(stack, pos) == SubSeq(stack, 1, pos)

\* parseEndTag(tagName); tagName = Undefined is the call without arguments.
parseEndTag(m, tagName) ==
  LET lowerCasedTagName == IF tagName # Undefined THEN toLowerCase(tagName) ELSE Undefined
      pos == IF tagName # Undefined
             THEN StackPos(m.stack, Len(m.stack) - 1, lowerCasedTagName)
             ELSE 0
  IN IF pos >= 0
     THEN LET m1 == CloseLoop(m, Len(m.stack) - 1, pos, tagName)
          IN IF m1.threw THEN m1
             ELSE [m1 EXCEPT !.stack = Truncate(@, pos),
                             !.lastTag = IF pos > 0 THEN m1.stack[pos].tag ELSE Undefined]
     ELSE IF Str(lowerCasedTagName) = "br" THEN CallStart(m, tagName, <<>>, TRUE)
     ELSE IF Str(lowerCasedTagName) = "p"
     THEN CallEnd(CallStart(m, tagName, <<>>, FALSE), tagName)
     ELSE m

RECURSIVE AttrLoop(_, _)
\* The loop of parseStartTag: [m, attrs, close].
AttrLoop(m, attrs) ==
  LET close == Call("StartTagClose", <<m.html>>)
      attr == Call("AttributeMatch", <<m.html>>)
  IN IF ~close.ok /\ attr.ok
     THEN AttrLoop(advance(m, attr.len),
                   Append(attrs, [name |-> attr.name, value |-> attr.value]))
     ELSE [m |-> m, attrs |-> attrs, close |-> close]

\* parseStartTag: [ok, m, tagName, attrs, unarySlash].  The input consumed
\* stays consumed when the tag does not close.
parseStartTag(m) ==
  LET a == StartTagOpen(m.html)
      r == AttrLoop(advance(m, a), <<>>)
  IN IF a < 0 THEN [ok |-> FALSE, m |-> m]
     ELSE IF r.close.ok
     THEN [ok |-> TRUE, m |-> advance(r.m, r.close.len), tagName |-> Slice(m.html, 1, a),
           attrs |-> r.attrs, unarySlash |-> r.close.unarySlash]
     ELSE [ok |-> FALSE, m |-> r.m]

\* handleStartTag
handleStartTag(m, match) ==
  LET tagName == match.tagName
      m1 == IF m.opts.expectHTML /\ m.lastTag # Undefined /\ Str(m.lastTag) = "p"
               /\ isNonPhrasingTag(tagName)
            THEN Call("parseEndTag", <<m, m.lastTag>>) ELSE m
      m2 == IF m.opts.expectHTML /\ canBeLeftOpenTag(m1, tagName) /\ m1.lastTag = tagName
            THEN Call("parseEndTag", <<m1, tagName>>) ELSE m1
      unary == isUnaryTag(m2, tagName) \/ match.unarySlash
      attrs == [i \in 1..Len(match.attrs) |->
                  [name |-> match.attrs[i].name, value |-> decodeAttr(match.attrs[i].value)]]
      m3 == IF ~unary /\ ~m2.threw
            THEN [m2 EXCEPT !.stack = Append(@, [tag |-> tagName,
                                                 lowerCasedTag |-> toLowerCase(tagName)]),
                            !.lastTag = tagName]
            ELSE m2
  IN CallStart(m3, tagName, attrs, unary)


\* String.prototype.substring(a, b) for a, b within the string: the
\* arguments are swapped when a > b.
Substring(cs, a, b) == IF a <= b THEN Slice(cs, a, b) ELSE Slice(cs, b, a)

\* Whether rest starts a tag, a comment or a conditional comment: the
\* condition that ends the loop of the text branch.
StartsMarkup(rest) ==
  \/ Call("EndTagMatch", <<rest>>).ok
  \/ StartTagOpen(rest) >= 0
  \/ IsComment(rest)
  \/ IsConditionalComment(rest)

RECURSIVE TextEndLoop(_, _)
\* The loop of the text branch: a '<' that starts no markup is text.
TextEndLoop(html, textEnd) ==
  LET rest == SubSeq(html, textEnd + 1, Len(html))
      next == IndexOfChar(rest, "<", 1)
  IN IF StartsMarkup(rest) \/ next < 0 THEN textEnd
     ELSE TextEndLoop(html, textEnd + next)

\* The first 0-based position of html where </stackedTag[^>]*> matches
\* without regard to case, -1 when there is none.
RECURSIVE StackedTagAt(_, _, _)
StackedTagAt(html, stackedTag, i) ==
  LET pat == <<"<", "/">> \o stackedTag
  IN IF i + Len(pat) > Len(html) THEN -1
     ELSE IF toLowerCase(SubSeq(html, i + 1, i + Len(pat))) = pat
             /\ IndexOfChar(html, ">", i + Len(pat)) >= 0
          THEN i
     ELSE StackedTagAt(html, stackedTag, i + 1)

\* The text part of one iteration of parseHTML, from the machine m that the
\* markup part left with the text end textEnd.
TextPart(m, textEnd) ==
  LET te == IF textEnd >= 0 THEN TextEndLoop(m.html, textEnd) ELSE -1
      text == IF textEnd >= 0 THEN Slice(m.html, 0, te) ELSE m.html
      m1 == IF textEnd >= 0 THEN advance(m, te) ELSE [m EXCEPT !.html = <<>>]
  IN IF text # <<>> THEN CallChars(m1, text) ELSE m1

\* The branch of parseHTML for the content of script, style and textarea.
RawPart(m) ==
  LET stackedTag == toLowerCase(m.lastTag)
      k == StackedTagAt(m.html, stackedTag, 0)
      g == IndexOfChar(m.html, ">", k + 2 + Len(stackedTag))
      text0 == Slice(m.html, 0, k)
      \* stackedTag is a plain text element here, so the replacement of
      \* comments and CDATA sections never runs
      text == IF shouldIgnoreFirstNewline(stackedTag, text0)
              THEN SubSeq(text0, 2, Len(text0)) ELSE text0
      m1 == IF k >= 0 THEN CallChars(advance(m, g + 1), text) ELSE m
  IN Call("parseEndTag", <<m1, stackedTag>>)

\* A mutant of NoProgress: the rest of the input is handed over as text
\* only in a build with diagnostics.
NoProgressChecked(m, last) ==
  IF m.html = last /\ ~m.threw
  THEN LET m1 == IF ~m.opts.production THEN CallChars(m, m.html) ELSE m
       IN [m |-> IF ~m1.threw /\ ~m.opts.production /\ m1.stack = <<>>
                 THEN WarnM(m1, "Mal-formatted tag at end of template", FALSE)
                 ELSE m1,
           brk |-> TRUE]
  ELSE [m |-> m, brk |-> FALSE]

\* A mutant of NoProgress: the loop goes on when nothing was consumed.
NoProgressContinues(m, last) == [m |-> m, brk |-> FALSE]

\* The check for progress that ends an iteration: [m, brk].
NoProgress(m, last) ==
  IF m.html = last /\ ~m.threw
  THEN LET m1 == CallChars(m, m.html)
       IN [m |-> IF ~m1.threw /\ ~m.opts.production /\ m1.stack = <<>>
                 THEN WarnM(m1, "Mal-formatted tag at end of template", FALSE)
                 ELSE m1,
           brk |-> TRUE]
  ELSE [m |-> m, brk |-> FALSE]

\* One iteration of the loop of parseHTML on a machine with html left:
\* [m, branch, brk], branch naming the branch the iteration took and brk
\* telling whether it left the loop.
Iteration(m) ==
  LET html == m.html
      textEnd == IndexOfChar(html, "<", 0)
      commentEnd == IndexOfSeq(html, <<"-", "-", ">">>, 0)
      conditionalEnd == IndexOfSeq(html, <<"]", ">">>, 0)
      doctypeMatch == Call("DoctypeMatch", <<html>>)
      endTagMatch == Call("EndTagMatch", <<html>>)
      startTagMatch == Call("parseStartTag", <<m>>)
      Continue(mm, b) == [m |-> mm, branch |-> b, brk |-> FALSE]
      Through(mm, b) ==
        LET np == NoProgress(mm, html)
        IN [m |-> np.m, branch |-> b, brk |-> np.brk]
  IN IF m.lastTag = Undefined \/ ~isPlainTextElement(m.lastTag)
     THEN IF textEnd = 0
          THEN IF IsComment(html) /\ commentEnd >= 0
               THEN Continue(advance(IF m.opts.comments
                                     THEN CallComment(m, Substring(html, 4, commentEnd))
                                     ELSE m,
                                     commentEnd + 3), "comment")
               ELSE IF IsConditionalComment(html) /\ conditionalEnd >= 0
               THEN Continue(advance(m, conditionalEnd + 2), "conditionalComment")
               ELSE IF doctypeMatch > 0
               THEN Continue(advance(m, doctypeMatch), "doctype")
               ELSE IF endTagMatch.ok
               THEN Continue(Call("parseEndTag", <<advance(m, endTagMatch.len), endTagMatch.name>>),
                             "endTag")
               ELSE IF startTagMatch.ok
               THEN LET m1 == Call("handleStartTag", <<startTagMatch.m, startTagMatch>>)
                    IN Continue(IF ~m1.threw /\ shouldIgnoreFirstNewline(m1.lastTag, m1.html)
                                THEN advance(m1, 1) ELSE m1,
                                "startTag")
               ELSE Through(Call("TextPart", <<startTagMatch.m, textEnd>>), "text")
          ELSE Through(Call("TextPart", <<m, textEnd>>), "text")
     ELSE Through(Call("RawPart", <<m>>), "raw")


RECURSIVE ScanLoop(_)
\* while (html) { ... } of parseHTML, to the end of the loop.
ScanLoop(m) ==
  IF m.html = <<>> \/ m.threw THEN m
  ELSE LET it == Call("Iteration", <<m>>)
       IN IF it.brk THEN it.m ELSE ScanLoop(it.m)

\* parseHTML(html, options): the loop, then the closing of the tags left.
parseHTML(m) ==
  LET m1 == ScanLoop(m)
  IN IF m1.threw THEN m1 ELSE Call("parseEndTag", <<m1, Undefined>>)

\* A mutant of SetDelimiters: delimiters set by an earlier call stay.
KeepDelimiters(old, options) ==
  IF old # Undefined THEN old ELSE options.delimiters

\* delimiters = options.delimiters
SetDelimiters(old, options) == options.delimiters

\* The state of a call of parse on entry, over the module-level state g
\* (delimiters, platform, re) that the call before left.
EnterParse(template, options, g) ==
  [html |-> template, index |-> 0, stack |-> <<>>, lastTag |-> Undefined,
   nodes |-> <<>>, root |-> 0, currentParent |-> 0, astStack |-> <<>>,
   inVPre |-> FALSE, inPre |-> FALSE, warned |-> FALSE,
   delimiters |-> SetDelimiters(g.delimiters, options),
   platform |-> [web |-> options.web],
   re |-> g.re,
   opts |-> options, template |-> template,
   warnings |-> <<>>, events |-> <<>>, depths |-> <<>>, threw |-> FALSE]

\* parse(template, options) as one call.
parse(template, options, g) == parseHTML(EnterParse(template, options, g))

\* The module-level state before the first call.
CleanGlobals == [delimiters |-> Undefined, platform |-> [web |-> FALSE], re |-> NoPatterns]


\* Call(fn, a): the arguments a are evaluated, as JavaScript evaluates the
\* arguments of a call, and the function fn is applied to their values.
Call(fn, a) ==
  CHOOSE r \in
    {(CASE fn = "NormalizationLoop" -> NormalizationLoop(v[1], v[2], v[3], v[4], v[5])
        [] fn = "DirectiveText" -> DirectiveText(v[1])
        [] fn = "DirectivesLoop" -> DirectivesLoop(v[1], v[2], v[3], v[4], v[5])
        [] fn = "camelize" -> camelize(v[1])
        [] fn = "GenNormal" -> GenNormal(v[1], v[2])
        [] fn = "GenElement" -> GenElement(v[1], v[2])
        [] fn = "GenStatic" -> GenStatic(v[1], v[2])
        [] fn = "GenOnce" -> GenOnce(v[1], v[2])
        [] fn = "GenIfConditions" -> GenIfConditions(v[1], v[2], v[3])
        [] fn = "GenIf" -> GenIf(v[1], v[2])
        [] fn = "GenFor" -> GenFor(v[1], v[2])
        [] fn = "GenDataFields" -> GenDataFields(v[1], v[2])
        [] fn = "GenDataInline" -> GenDataInline(v[1], v[2], v[3])
        [] fn = "GenData" -> GenData(v[1], v[2])
        [] fn = "GenInlineTemplate" -> GenInlineTemplate(v[1], v[2])
        [] fn = "GenScopedSlots" -> GenScopedSlots(v[1], v[2], v[3], v[4])
        [] fn = "GenScopedSlot" -> GenScopedSlot(v[1], v[2], v[3])
        [] fn = "GenForScopedSlot" -> GenForScopedSlot(v[1], v[2], v[3])
        [] fn = "GenChildren" -> GenChildren(v[1], v[2], v[3])
        [] fn = "GenNode" -> GenNode(v[1], v[2])
        [] fn = "GenSlot" -> GenSlot(v[1], v[2])
        [] fn = "GenComponent" -> GenComponent(v[1], v[2], v[3])
        [] fn = "Generate" -> Generate(v[1], v[2])
        [] fn = "wrapFilter" -> wrapFilter(v[1], v[2])
        [] fn = "ApplyFilters" -> ApplyFilters(v[1], v[2])
        [] fn = "parseFilters" -> parseFilters(v[1])
        [] fn = "MatchAt" -> MatchAt(v[1], v[2], v[3], v[4])
        [] fn = "RegExec" -> RegExec(v[1], v[2], v[3], v[4])
        [] fn = "ParseTextLoop" -> ParseTextLoop(v[1], v[2], v[3], v[4], v[5], v[6], v[7])
        [] fn = "parseText" -> parseText(v[1], v[2], v[3])
        [] fn = "getAndRemoveAttr" -> getAndRemoveAttr(v[1], v[2], v[3])
        [] fn = "getBindingAttr" -> getBindingAttr(v[1], v[2], v[3])
        [] fn = "addHandler" -> addHandler(v[1], v[2], v[3], v[4], v[5])
        [] fn = "isForbiddenTag" -> isForbiddenTag(v[1])
        [] fn = "ForAliasMatch" -> ForAliasMatch(v[1], v[2])
        [] fn = "IteratorAt" -> IteratorAt(v[1], v[2])
        [] fn = "IteratorMatch" -> IteratorMatch(v[1], v[2])
        [] fn = "parseFor" -> parseFor(v[1])
        [] fn = "processIf" -> processIf(v[1], v[2])
        [] fn = "processSlot" -> processSlot(v[1], v[2])
        [] fn = "processComponent" -> processComponent(v[1], v[2])
        [] fn = "MustUseProp" -> MustUseProp(v[1], v[2], v[3])
        [] fn = "ProcessBind" -> ProcessBind(v[1], v[2], v[3], v[4], v[5])
        [] fn = "ProcessDirective" -> ProcessDirective(v[1], v[2], v[3], v[4], v[5], v[6], v[7])
        [] fn = "ProcessDirectiveAttr" -> ProcessDirectiveAttr(v[1], v[2], v[3], v[4], v[5])
        [] fn = "ProcessAttr" -> ProcessAttr(v[1], v[2], v[3])
        [] fn = "processElement" -> processElement(v[1], v[2])
        [] fn = "checkRootConstraints" -> checkRootConstraints(v[1], v[2])
        [] fn = "processIfConditions" -> processIfConditions(v[1], v[2], v[3])
        [] fn = "TreeManagement" -> TreeManagement(v[1], v[2])
        [] fn = "StartProcess" -> StartProcess(v[1], v[2])
        [] fn = "StartElement" -> StartElement(v[1], v[2], v[3], v[4], v[5])
        [] fn = "end" -> end(v[1])
        [] fn = "chars" -> chars(v[1], v[2])
        [] fn = "QName" -> QName(v[1], v[2])
        [] fn = "EndTagMatch" -> EndTagMatch(v[1])
        [] fn = "DoctypeMatch" -> DoctypeMatch(v[1])
        [] fn = "StartTagClose" -> StartTagClose(v[1])
        [] fn = "AttrValue" -> AttrValue(v[1], v[2])
        [] fn = "AttributeMatch" -> AttributeMatch(v[1])
        [] fn = "parseEndTag" -> parseEndTag(v[1], v[2])
        [] fn = "parseStartTag" -> parseStartTag(v[1])
        [] fn = "handleStartTag" -> handleStartTag(v[1], v[2])
        [] fn = "TextPart" -> TextPart(v[1], v[2])
        [] fn = "RawPart" -> RawPart(v[1])
        [] fn = "Iteration" -> Iteration(v[1]))
     : v \in {a}} : TRUE

(***************************************************************************)
(* The compiler as a state machine                                         *)
(***************************************************************************)

VARIABLES
  pc,              \* where the caller of the compiler is
  calls,           \* the number of calls of parse so far
  template,        \* the arguments of the call in progress
  options,
  delimiters,      \* module-level state of the parser
  platform,
  re,              \* the pattern objects of the text parser
  html,            \* locals of parseHTML
  index,
  stack,
  lastTag,
  nodes,           \* the AST nodes created, in creation order
  root,            \* locals of parse
  currentParent,
  astStack,
  inVPre,
  inPre,
  warned,
  warnings,        \* what the diagnostic sink received
  events,          \* the tokenizer events, in the order raised
  depths,          \* the depths of the two stacks when each handler returned
  threw,           \* an error is propagating out of the call
  marks,           \* what the optimizer marked
  log,             \* the trace of the generator
  result,          \* what generate returned
  again            \* what a second generate of the same AST returned

vars == <<pc, calls, template, options, delimiters, platform, re, html, index,
          stack, lastTag, nodes, root, currentParent, astStack, inVPre, inPre,
          warned, warnings, events, depths, threw, marks, log, result, again>>

\* The state of the call in progress as the record the operators work on.
Machine ==
  [html |-> html, index |-> index, stack |-> stack, lastTag |-> lastTag,
   nodes |-> nodes, root |-> root, currentParent |-> currentParent,
   astStack |-> astStack, inVPre |-> inVPre, inPre |-> inPre, warned |-> warned,
   delimiters |-> delimiters, platform |-> platform, re |-> re,
   opts |-> options, template |-> template,
   warnings |-> warnings, events |-> events, depths |-> depths, threw |-> threw]

\* The next state holds the fields of m.
Load(m) ==
  /\ html' = m.html /\ index' = m.index /\ stack' = m.stack /\ lastTag' = m.lastTag
  /\ nodes' = m.nodes /\ root' = m.root /\ currentParent' = m.currentParent
  /\ astStack' = m.astStack /\ inVPre' = m.inVPre /\ inPre' = m.inPre
  /\ warned' = m.warned /\ delimiters' = m.delimiters /\ platform' = m.platform
  /\ re' = m.re /\ options' = m.opts /\ template' = m.template
  /\ warnings' = m.warnings /\ events' = m.events /\ depths' = m.depths
  /\ threw' = m.threw

NoResult == [render |-> "", staticRenderFns |-> <<>>]
NoMarks == [staticRoot |-> {}, staticInFor |-> FALSE, onceInFor |-> FALSE]
NoOptions == [production |-> FALSE, web |-> FALSE, comments |-> FALSE,
              preserveWhitespace |-> TRUE, expectHTML |-> FALSE,
              delimiters |-> Undefined]

Globals == [delimiters |-> delimiters, platform |-> platform, re |-> re]


(***************************************************************************)
(* Inputs                                                                  *)
(***************************************************************************)

\* <div><a v-if="x"/><b v-else-if="y"/><c v-else/></div>
T_IfElseIfElse ==
  <<"<", "d", "i", "v", ">", "<", "a", " ", "v", "-", "i", "f", "=", "\"",
    "x", "\"", "/", ">", "<", "b", " ", "v", "-", "e", "l", "s", "e", "-",
    "i", "f", "=", "\"", "y", "\"", "/", ">", "<", "c", " ", "v", "-", "e",
    "l", "s", "e", "/", ">", "<", "/", "d", "i", "v", ">">>

\* <p v-if="x">a</p>
T_IfOnly ==
  <<"<", "p", " ", "v", "-", "i", "f", "=", "\"", "x", "\"", ">", "a", "<",
    "/", "p", ">">>

\* <div><a v-if="x"/><b v-else/><c v-else/></div>
T_TwoElse ==
  <<"<", "d", "i", "v", ">", "<", "a", " ", "v", "-", "i", "f", "=", "\"",
    "x", "\"", "/", ">", "<", "b", " ", "v", "-", "e", "l", "s", "e", "/",
    ">", "<", "c", " ", "v", "-", "e", "l", "s", "e", "/", ">", "<", "/",
    "d", "i", "v", ">">>

\* <a v-if="x"/><b v-else/>
T_RootIf ==
  <<"<", "a", " ", "v", "-", "i", "f", "=", "\"", "x", "\"", "/", ">", "<",
    "b", " ", "v", "-", "e", "l", "s", "e", "/", ">">>

\* <p v-for="i in l" v-if="i">{{i}}</p>
T_ForIf ==
  <<"<", "p", " ", "v", "-", "f", "o", "r", "=", "\"", "i", " ", "i", "n",
    " ", "l", "\"", " ", "v", "-", "i", "f", "=", "\"", "i", "\"", ">", "{",
    "{", "i", "}", "}", "<", "/", "p", ">">>

\* <b v-once v-if="a"/>
T_OnceIf ==
  <<"<", "b", " ", "v", "-", "o", "n", "c", "e", " ", "v", "-", "i", "f",
    "=", "\"", "a", "\"", "/", ">">>

\* <ul><li v-for="i in l" :key="i"><b v-once/></li></ul>
T_OnceFor ==
  <<"<", "u", "l", ">", "<", "l", "i", " ", "v", "-", "f", "o", "r", "=",
    "\"", "i", " ", "i", "n", " ", "l", "\"", " ", ":", "k", "e", "y", "=",
    "\"", "i", "\"", ">", "<", "b", " ", "v", "-", "o", "n", "c", "e", "/",
    ">", "<", "/", "l", "i", ">", "<", "/", "u", "l", ">">>

\* <div><p v-once>a</p><p v-once>a</p></div>
T_Statics ==
  <<"<", "d", "i", "v", ">", "<", "p", " ", "v", "-", "o", "n", "c", "e",
    ">", "a", "<", "/", "p", ">", "<", "p", " ", "v", "-", "o", "n", "c",
    "e", ">", "a", "<", "/", "p", ">", "<", "/", "d", "i", "v", ">">>

\* <div><template v-if="x"><i/></template><slot/></div>
T_TemplateSlot ==
  <<"<", "d", "i", "v", ">", "<", "t", "e", "m", "p", "l", "a", "t", "e",
    " ", "v", "-", "i", "f", "=", "\"", "x", "\"", ">", "<", "i", "/", ">",
    "<", "/", "t", "e", "m", "p", "l", "a", "t", "e", ">", "<", "s", "l",
    "o", "t", "/", ">", "<", "/", "d", "i", "v", ">">>

\* <div><i v-once/><my inline-template><b v-once/></my></div>
T_Inline ==
  <<"<", "d", "i", "v", ">", "<", "i", " ", "v", "-", "o", "n", "c", "e",
    "/", ">", "<", "m", "y", " ", "i", "n", "l", "i", "n", "e", "-", "t",
    "e", "m", "p", "l", "a", "t", "e", ">", "<", "b", " ", "v", "-", "o",
    "n", "c", "e", "/", ">", "<", "/", "m", "y", ">", "<", "/", "d", "i",
    "v", ">">>

\* <my inline-template></my>
T_InlineNone ==
  <<"<", "m", "y", " ", "i", "n", "l", "i", "n", "e", "-", "t", "e", "m",
    "p", "l", "a", "t", "e", ">", "<", "/", "m", "y", ">">>

\* <my inline-template><a/><b/></my>
T_InlineTwo ==
  <<"<", "m", "y", " ", "i", "n", "l", "i", "n", "e", "-", "t", "e", "m",
    "p", "l", "a", "t", "e", ">", "<", "a", "/", ">", "<", "b", "/", ">",
    "<", "/", "m", "y", ">">>

\* <my inline-template>t</my>
T_InlineText ==
  <<"<", "m", "y", " ", "i", "n", "l", "i", "n", "e", "-", "t", "e", "m",
    "p", "l", "a", "t", "e", ">", "t", "<", "/", "m", "y", ">">>

\* <!--x--><p/>
T_RootComment ==
  <<"<", "!", "-", "-", "x", "-", "-", ">", "<", "p", "/", ">">>

\* <p><!--x--></p>
T_Comment ==
  <<"<", "p", ">", "<", "!", "-", "-", "x", "-", "-", ">", "<", "/", "p",
    ">">>

\* <!DOCTYPE h><![x]><div></br></p></div>
T_Tokens ==
  <<"<", "!", "D", "O", "C", "T", "Y", "P", "E", " ", "h", ">", "<", "!",
    "[", "x", "]", ">", "<", "d", "i", "v", ">", "<", "/", "b", "r", ">",
    "<", "/", "p", ">", "<", "/", "d", "i", "v", ">">>

\* <div><style>a<b</style><textarea>\nx</textarea></div>
T_Raw ==
  <<"<", "d", "i", "v", ">", "<", "s", "t", "y", "l", "e", ">", "a", "<",
    "b", "<", "/", "s", "t", "y", "l", "e", ">", "<", "t", "e", "x", "t",
    "a", "r", "e", "a", ">", "\n", "x", "<", "/", "t", "e", "x", "t", "a",
    "r", "e", "a", ">", "<", "/", "d", "i", "v", ">">>

\* <pre> a <b> </b></pre>
T_Pre ==
  <<"<", "p", "r", "e", ">", " ", "a", " ", "<", "b", ">", " ", "<", "/",
    "b", ">", "<", "/", "p", "r", "e", ">">>

\* <p>[[a]]{{b|f}}</p>
T_Delimiters ==
  <<"<", "p", ">", "[", "[", "a", "]", "]", "{", "{", "b", "|", "f", "}",
    "}", "<", "/", "p", ">">>

\* a<
T_Malformed ==
  <<"a", "<">>

\* <p>a<
T_OpenMalformed ==
  <<"<", "p", ">", "a", "<">>

\* <p
T_Unclosed ==
  <<"<", "p">>

\* <a :b="c" @d="e" f="g"/>
T_Attrs ==
  <<"<", "a", " ", ":", "b", "=", "\"", "c", "\"", " ", "@", "d", "=", "\"",
    "e", "\"", " ", "f", "=", "\"", "g", "\"", "/", ">">>

\* <div v-pre><a :b="c">{{d}}</a></div>
T_VPre ==
  <<"<", "d", "i", "v", " ", "v", "-", "p", "r", "e", ">", "<", "a", " ",
    ":", "b", "=", "\"", "c", "\"", ">", "{", "{", "d", "}", "}", "<", "/",
    "a", ">", "<", "/", "d", "i", "v", ">">>

\* <my><x v-for="i in l" slot-scope="s"/></my>
T_SlotFor ==
  <<"<", "m", "y", ">", "<", "x", " ", "v", "-", "f", "o", "r", "=", "\"",
    "i", " ", "i", "n", " ", "l", "\"", " ", "s", "l", "o", "t", "-", "s",
    "c", "o", "p", "e", "=", "\"", "s", "\"", "/", ">", "<", "/", "m", "y",
    ">">>

\* <textarea>\n\nx</textarea>
T_TextareaNewlines ==
  <<"<", "t", "e", "x", "t", "a", "r", "e", "a", ">", "\n", "\n", "x", "<",
    "/", "t", "e", "x", "t", "a", "r", "e", "a", ">">>

\* <pre>\n\nx</pre>
T_PreNewlines ==
  <<"<", "p", "r", "e", ">", "\n", "\n", "x", "<", "/", "p", "r", "e", ">">>

\* <div><a v-pre><b v-if="x"/></a><u v-for="i in l" :k="v"/></div>
T_VPreThen ==
  <<"<", "d", "i", "v", ">", "<", "a", " ", "v", "-", "p", "r", "e", ">", "<",
    "b", " ", "v", "-", "i", "f", "=", "\"", "x", "\"", "/", ">", "<", "/",
    "a", ">", "<", "u", " ", "v", "-", "f", "o", "r", "=", "\"", "i", " ",
    "i", "n", " ", "l", "\"", " ", ":", "k", "=", "\"", "v", "\"", "/", ">",
    "<", "/", "d", "i", "v", ">">>

\* <my><a slot-scope="s"/><b slot-scope="t"/></my>
T_SlotTwo ==
  <<"<", "m", "y", ">", "<", "a", " ", "s", "l", "o", "t", "-", "s", "c",
    "o", "p", "e", "=", "\"", "s", "\"", "/", ">", "<", "b", " ", "s", "l",
    "o", "t", "-", "s", "c", "o", "p", "e", "=", "\"", "t", "\"", "/", ">",
    "<", "/", "m", "y", ">">>

\* <my><a v-if="x" slot-scope="s"/><b v-else slot-scope="s"/></my>
T_SlotElse ==
  <<"<", "m", "y", ">", "<", "a", " ", "v", "-", "i", "f", "=", "\"", "x",
    "\"", " ", "s", "l", "o", "t", "-", "s", "c", "o", "p", "e", "=", "\"",
    "s", "\"", "/", ">", "<", "b", " ", "v", "-", "e", "l", "s", "e", " ",
    "s", "l", "o", "t", "-", "s", "c", "o", "p", "e", "=", "\"", "s", "\"",
    "/", ">", "<", "/", "m", "y", ">">>

\* <div><a v-if="x"/><style v-else></style></div>
T_ElseStyle ==
  <<"<", "d", "i", "v", ">", "<", "a", " ", "v", "-", "i", "f", "=", "\"",
    "x", "\"", "/", ">", "<", "s", "t", "y", "l", "e", " ", "v", "-", "e",
    "l", "s", "e", ">", "<", "/", "s", "t", "y", "l", "e", ">", "<", "/",
    "d", "i", "v", ">">>

\* <div><a/>t<b v-else/></div>
T_ElseAlone ==
  <<"<", "d", "i", "v", ">", "<", "a", "/", ">", "t", "<", "b", " ", "v",
    "-", "e", "l", "s", "e", "/", ">", "<", "/", "d", "i", "v", ">">>

\* <div><a v-if="x"/> t <b v-else/></div>
T_ElseAfterText ==
  <<"<", "d", "i", "v", ">", "<", "a", " ", "v", "-", "i", "f", "=", "\"",
    "x", "\"", "/", ">", " ", "t", " ", "<", "b", " ", "v", "-", "e", "l",
    "s", "e", "/", ">", "<", "/", "d", "i", "v", ">">>

\* <ul><li v-for="i in l" :key="i"><b v-once><i v-once/></b><a v-once/></li></ul>
T_OnceNested ==
  <<"<", "u", "l", ">", "<", "l", "i", " ", "v", "-", "f", "o", "r", "=",
    "\"", "i", " ", "i", "n", " ", "l", "\"", " ", ":", "k", "e", "y", "=",
    "\"", "i", "\"", ">", "<", "b", " ", "v", "-", "o", "n", "c", "e", ">",
    "<", "i", " ", "v", "-", "o", "n", "c", "e", "/", ">", "<", "/", "b",
    ">", "<", "a", " ", "v", "-", "o", "n", "c", "e", "/", ">", "<", "/",
    "l", "i", ">", "<", "/", "u", "l", ">">>

\* <ul v-for="a in l" :key="a"><li v-for="i in a"><b v-once/></li></ul>
T_OnceInnerKeyless ==
  <<"<", "u", "l", " ", "v", "-", "f", "o", "r", "=", "\"", "a", " ", "i",
    "n", " ", "l", "\"", " ", ":", "k", "e", "y", "=", "\"", "a", "\"", ">",
    "<", "l", "i", " ", "v", "-", "f", "o", "r", "=", "\"", "i", " ", "i",
    "n", " ", "a", "\"", ">", "<", "b", " ", "v", "-", "o", "n", "c", "e",
    "/", ">", "<", "/", "l", "i", ">", "<", "/", "u", "l", ">">>

\* <div><a v-if="x"/><my v-else/>t</div>
T_NormBlockComponent ==
  <<"<", "d", "i", "v", ">", "<", "a", " ", "v", "-", "i", "f", "=", "\"",
    "x", "\"", "/", ">", "<", "m", "y", " ", "v", "-", "e", "l", "s", "e",
    "/", ">", "t", "<", "/", "d", "i", "v", ">">>

\* <div><a v-if="x"/><b v-else v-for="i in l"/></div>
T_NormBlockFor ==
  <<"<", "d", "i", "v", ">", "<", "a", " ", "v", "-", "i", "f", "=", "\"",
    "x", "\"", "/", ">", "<", "b", " ", "v", "-", "e", "l", "s", "e", " ",
    "v", "-", "f", "o", "r", "=", "\"", "i", " ", "i", "n", " ", "l", "\"",
    "/", ">", "<", "/", "d", "i", "v", ">">>

\* <div><slot a="b"/><slot v-bind="o"/><slot name="n" a="b" v-bind="o">t</slot><slot>t</slot><slot :c="d"><i/></slot><slot v-bind="o"><i/></slot></div>
T_Slots ==
  <<"<", "d", "i", "v", ">", "<", "s", "l", "o", "t", " ", "a", "=", "\"",
    "b", "\"", "/", ">", "<", "s", "l", "o", "t", " ", "v", "-", "b", "i",
    "n", "d", "=", "\"", "o", "\"", "/", ">", "<", "s", "l", "o", "t", " ",
    "n", "a", "m", "e", "=", "\"", "n", "\"", " ", "a", "=", "\"", "b",
    "\"", " ", "v", "-", "b", "i", "n", "d", "=", "\"", "o", "\"", ">", "t",
    "<", "/", "s", "l", "o", "t", ">", "<", "s", "l", "o", "t", ">", "t",
    "<", "/", "s", "l", "o", "t", ">", "<", "s", "l", "o", "t", " ", ":",
    "c", "=", "\"", "d", "\"", ">", "<", "i", "/", ">", "<", "/", "s", "l",
    "o", "t", ">", "<", "s", "l", "o", "t", " ", "v", "-", "b", "i", "n",
    "d", "=", "\"", "o", "\"", ">", "<", "i", "/", ">", "<", "/", "s", "l",
    "o", "t", ">", "<", "/", "d", "i", "v", ">">>

\* <div><slot a="b"><my v-for="i in l"/></slot></div>
T_SlotFallbackFor ==
  <<"<", "d", "i", "v", ">", "<", "s", "l", "o", "t", " ", "a", "=", "\"",
    "b", "\"", ">", "<", "m", "y", " ", "v", "-", "f", "o", "r", "=", "\"",
    "i", " ", "i", "n", " ", "l", "\"", "/", ">", "<", "/", "s", "l", "o",
    "t", ">", "<", "/", "d", "i", "v", ">">>

\* <pre><pre>a</pre>  <b><i/> </b></pre>
T_PreNested ==
  <<"<", "p", "r", "e", ">", "<", "p", "r", "e", ">", "a", "<", "/", "p",
    "r", "e", ">", " ", " ", "<", "b", ">", "<", "i", "/", ">", " ", "<",
    "/", "b", ">", "<", "/", "p", "r", "e", ">">>

\* <Div><b><i>x</DIV>
T_CloseOuter ==
  <<"<", "D", "i", "v", ">", "<", "b", ">", "<", "i", ">", "x", "<", "/",
    "D", "I", "V", ">">>

Templates ==
  {T_CloseOuter,
   T_PreNested,
   T_SlotFallbackFor,
   T_Slots,
   T_NormBlockFor,
   T_NormBlockComponent,
   T_OnceInnerKeyless,
   T_OnceNested,
   T_ElseAfterText,
   T_ElseAlone,
   T_ElseStyle,
   T_SlotElse,
   T_SlotTwo,
   T_OpenMalformed,
   T_IfElseIfElse,
   T_IfOnly,
   T_TwoElse,
   T_RootIf,
   T_ForIf,
   T_OnceIf,
   T_OnceFor,
   T_Statics,
   T_TemplateSlot,
   T_Inline,
   T_InlineNone,
   T_InlineTwo,
   T_InlineText,
   T_RootComment,
   T_Comment,
   T_Tokens,
   T_Raw,
   T_Pre,
   T_Delimiters,
   T_Malformed,
   T_Unclosed,
   T_Attrs,
   T_VPre,
   T_SlotFor,
   T_TextareaNewlines,
   T_PreNewlines,
   T_VPreThen}


\* Pieces of markup, and the inputs made of at most MaxTokens of them.
Tokens ==
  {<<"<", "d", "i", "v", ">">>,
   <<"<", "p", ">">>,
   <<"<", "l", "i", ">">>,
   <<"<", "b", ">">>,
   <<"<", "/", "d", "i", "v", ">">>,
   <<"<", "/", "p", ">">>,
   <<"<", "/", "b", "r", ">">>,
   <<"x">>,
   <<"<">>}

\* Pieces of inputs with elements whose content is raw text or starts with
\* a newline.
RawTokens ==
  {<<"<", "s", "t", "y", "l", "e", ">">>,
   <<"<", "/", "s", "t", "y", "l", "e", ">">>,
   <<"<", "t", "e", "x", "t", "a", "r", "e", "a", ">">>,
   <<"<", "/", "t", "e", "x", "t", "a", "r", "e", "a", ">">>,
   <<"<", "p", "r", "e", ">">>,
   <<"<", "b", ">">>,
   <<"\n">>,
   <<"x">>}

\* Pieces of inputs with elements that carry v-pre and elements that carry
\* directives: <a v-pre>, </a>, <b v-if="x">,
\* </b>, <i v-pre/>, <u v-for="i in l" :k="v">.
PreTokens ==
  {<<"<", "a", " ", "v", "-", "p", "r", "e", ">">>,
   <<"<", "/", "a", ">">>,
   <<"<", "b", " ", "v", "-", "i", "f", "=", "\"", "x", "\"", ">">>,
   <<"<", "/", "b", ">">>,
   <<"<", "i", " ", "v", "-", "p", "r", "e", "/", ">">>,
   <<"<", "u", " ", "v", "-", "f", "o", "r", "=", "\"", "i", " ", "i", "n",
     " ", "l", "\"", " ", ":", "k", "=", "\"", "v", "\"", ">">>}

MaxTokens == 3

TokenInputs ==
  {Flatten(ts) : ts \in UNION {[1..k -> Tokens] \cup [1..k -> RawTokens]
                                 \cup [1..k -> PreTokens]
                                 : k \in 1..MaxTokens}}

\* The option set of the web platform with diagnostics on, and the option
\* sets that differ from it in one option.
WebOptions ==
  [production |-> FALSE, web |-> TRUE, comments |-> FALSE,
   preserveWhitespace |-> TRUE, expectHTML |-> TRUE, delimiters |-> Undefined]

\* delimiters: ["[[", "]]"]
Brackets == <<(<<"[", "[">>), (<<"]", "]">>)>>

OptionVariants ==
  {WebOptions,
   [WebOptions EXCEPT !.comments = TRUE],
   [WebOptions EXCEPT !.preserveWhitespace = FALSE],
   [WebOptions EXCEPT !.delimiters = Brackets],
   [WebOptions EXCEPT !.web = FALSE, !.expectHTML = FALSE]}

OptionSets ==
  {[o EXCEPT !.production = p] : o \in OptionVariants, p \in BOOLEAN}

\* The number of calls of the compiler in one behaviour.
MaxCompiles == 2

\* The number of nodes the optimizer marks as static roots.
MaxStaticRoots == 1

Init ==
  /\ pc = "idle" /\ calls = 0
  /\ template = <<>> /\ options = NoOptions
  /\ delimiters = CleanGlobals.delimiters
  /\ platform = CleanGlobals.platform
  /\ re = CleanGlobals.re
  /\ html = <<>> /\ index = 0 /\ stack = <<>> /\ lastTag = Undefined
  /\ nodes = <<>> /\ root = 0 /\ currentParent = 0 /\ astStack = <<>>
  /\ inVPre = FALSE /\ inPre = FALSE /\ warned = FALSE
  /\ warnings = <<>> /\ events = <<>> /\ depths = <<>> /\ threw = FALSE
  /\ marks = NoMarks /\ log = <<>> /\ result = NoResult /\ again = NoResult

\* A caller calls parse(template, options).
ParseStart(t, o) ==
  /\ pc = "idle" /\ calls < MaxCompiles
  /\ \E m \in {EnterParse(t, o, Globals)} : Load(m)
  /\ calls' = calls + 1
  /\ pc' = IF t = <<>> THEN "cleanup" ELSE "scan"
  /\ UNCHANGED <<marks, log, result, again>>

\* One iteration of the loop of parseHTML that takes the branch b.
Scan(b) ==
  /\ pc = "scan"
  /\ \E it \in {Call("Iteration", <<Machine>>)} :
        /\ it.branch = b
        /\ Load(it.m)
        /\ pc' = IF it.m.threw THEN "threw"
                 ELSE IF it.brk \/ it.m.html = <<>> THEN "cleanup"
                 ELSE "scan"
  /\ UNCHANGED <<calls, marks, log, result, again>>

ScanComment == Scan("comment")
ScanConditionalComment == Scan("conditionalComment")
ScanDoctype == Scan("doctype")
ScanEndTag == Scan("endTag")
ScanStartTag == Scan("startTag")
ScanText == Scan("text")
ScanRawText == Scan("raw")

\* parseHTML leaves its loop, closes the tags left open and parse returns
\* root.
Finish ==
  /\ pc = "cleanup"
  /\ \E m \in {Call("parseEndTag", <<Machine, Undefined>>)} :
        /\ Load(m)
        /\ pc' = IF m.threw THEN "threw" ELSE "parsed"
  /\ UNCHANGED <<calls, marks, log, result, again>>

\* The elements of the AST.
Elements == {i \in 1..Len(nodes) : nodes[i].type = 1}

\* What an optimizer may mark: at most MaxStaticRoots static roots, with or
\* without the mark of a place inside an iteration, and that mark on every
\* run-once element or on none.
MarkChoices ==
  {[NoMarks EXCEPT !.onceInFor = o] : o \in BOOLEAN} \cup
  {[staticRoot |-> S, staticInFor |-> f, onceInFor |-> o] :
     S \in {S \in SUBSET Elements : S # {} /\ Cardinality(S) <= MaxStaticRoots},
     f \in BOOLEAN, o \in BOOLEAN}

ApplyMarks(ns, mk) ==
  [i \in 1..Len(ns) |->
     IF i \in mk.staticRoot
     THEN [ns[i] EXCEPT !.staticRoot = TRUE, !.staticInFor = mk.staticInFor]
     ELSE IF mk.onceInFor /\ ns[i].type = 1 /\ ns[i].once
     THEN [ns[i] EXCEPT !.staticInFor = TRUE]
     ELSE ns[i]]

\* The optimizer, which is not part of the code under study, marks the AST.
Optimize(mk) ==
  /\ pc = "parsed"
  /\ marks' = mk
  /\ nodes' = ApplyMarks(nodes, mk)
  /\ pc' = "optimized"
  /\ UNCHANGED <<calls, template, options, delimiters, platform, re, html, index,
                 stack, lastTag, root, currentParent, astStack, inVPre, inPre,
                 warned, warnings, events, depths, threw, log, result, again>>

\* The state generate(ast, options) starts from: the AST, the diagnostic
\* sink and the options.
GenState(ns, ws, o) ==
  [nodes |-> ns, warnings |-> ws, log |-> <<>>, threw |-> FALSE, fns |-> <<>>,
   onceId |-> 0, pre |-> FALSE, sid |-> 0, nsid |-> 1,
   opts |-> [production |-> o.production, web |-> o.web]]

\* generate(ast, options) on the AST parse returned.
GenerateCall ==
  /\ pc = "optimized"
  /\ \E g \in {Call("Generate", <<root, GenState(nodes, warnings, options)>>)} :
        /\ nodes' = g.st.nodes
        /\ warnings' = g.st.warnings
        /\ log' = g.st.log
        /\ threw' = g.st.threw
        /\ result' = IF g.st.threw THEN NoResult
                     ELSE [render |-> g.render, staticRenderFns |-> g.staticRenderFns]
        /\ pc' = IF g.st.threw THEN "threw" ELSE "generated"
  /\ UNCHANGED <<calls, template, options, delimiters, platform, re, html, index,
                 stack, lastTag, root, currentParent, astStack, inVPre, inPre,
                 warned, events, depths, marks, again>>

\* generate(ast, options) a second time on the same AST object.
GenerateAgain ==
  /\ pc = "generated"
  /\ \E g \in {Call("Generate", <<root, GenState(nodes, warnings, options)>>)} :
        /\ nodes' = g.st.nodes
        /\ warnings' = g.st.warnings
        /\ threw' = g.st.threw
        /\ again' = IF g.st.threw THEN NoResult
                    ELSE [render |-> g.render, staticRenderFns |-> g.staticRenderFns]
        /\ pc' = IF g.st.threw THEN "threw" ELSE "generated2"
  /\ UNCHANGED <<calls, template, options, delimiters, platform, re, html, index,
                 stack, lastTag, root, currentParent, astStack, inVPre, inPre,
                 warned, events, depths, marks, log, result>>

\* A call is over: what stays is the module-level state.
Reset ==
  /\ pc' = "idle"
  /\ template' = <<>> /\ options' = NoOptions
  /\ html' = <<>> /\ index' = 0 /\ stack' = <<>> /\ lastTag' = Undefined
  /\ nodes' = <<>> /\ root' = 0 /\ currentParent' = 0 /\ astStack' = <<>>
  /\ inVPre' = FALSE /\ inPre' = FALSE /\ warned' = FALSE
  /\ warnings' = <<>> /\ events' = <<>> /\ depths' = <<>> /\ threw' = FALSE
  /\ marks' = NoMarks /\ log' = <<>> /\ result' = NoResult /\ again' = NoResult
  /\ UNCHANGED <<calls, delimiters, platform, re>>

\* The caller has the program text, or the error.
Return == pc \in {"generated", "generated2", "threw"} /\ Reset

Next ==
  \/ \E t \in Templates, o \in OptionSets : ParseStart(t, o)
  \/ ScanComment
  \/ ScanConditionalComment
  \/ ScanDoctype
  \/ ScanEndTag
  \/ ScanStartTag
  \/ ScanText
  \/ ScanRawText
  \/ Finish
  \/ \E mk \in MarkChoices : Optimize(mk)
  \/ GenerateCall
  \/ GenerateAgain
  \/ Return

Spec == Init /\ [][Next]_vars


(***************************************************************************)
(* The tokenizer under a caller that only parses                           *)
(***************************************************************************)

\* The option sets the inputs made of tokens are parsed with.
TokenOptionSets ==
  {WebOptions,
   [WebOptions EXCEPT !.production = TRUE],
   [WebOptions EXCEPT !.web = FALSE, !.expectHTML = FALSE]}

\* The number of calls of parse in one behaviour of this caller.
MaxParses == 1

ParseTokens(t, o) == calls < MaxParses /\ ParseStart(t, o)

\* The caller has the AST, or the error.
ParseReturn == pc \in {"parsed", "threw"} /\ Reset

TokenNext ==
  \/ \E t \in Templates \cup TokenInputs, o \in TokenOptionSets : ParseTokens(t, o)
  \/ ScanComment
  \/ ScanConditionalComment
  \/ ScanDoctype
  \/ ScanEndTag
  \/ ScanStartTag
  \/ ScanText
  \/ ScanRawText
  \/ Finish
  \/ ParseReturn

TokenizerSpec == Init /\ [][TokenNext]_vars


(***************************************************************************)
(* The text parser under a caller that parses one paragraph of text        *)
(***************************************************************************)

\* Pieces of text: literals, delimiter spans with and without a filter,
\* spans of other delimiters, and delimiters that enclose nothing.
TextPieces ==
  {<<"a", " ">>,
   <<"{", "{", " ", "b", " ", "|", " ", "f", " ", "}", "}">>,
   <<" ", "c">>,
   <<"{", "{", "d", "}", "}">>,
   <<"{", "{">>,
   <<"}", "}">>,
   <<"[", "[", "e", "]", "]">>,
   <<"\n">>}

\* The number of pieces in a text.
MaxPieces == 3

\* <p>text</p>
Paragraph(text) == <<"<", "p", ">">> \o text \o <<"<", "/", "p", ">">>

TextInputs ==
  {Paragraph(Flatten(ts)) : ts \in UNION {[1..k -> TextPieces] : k \in 1..MaxPieces}}

TextOptionSets ==
  {WebOptions,
   [WebOptions EXCEPT !.production = TRUE],
   [WebOptions EXCEPT !.delimiters = Brackets]}

ParseParagraph(t, o) == calls < MaxParses /\ ParseStart(t, o)

TextNext ==
  \/ \E t \in TextInputs, o \in TextOptionSets : ParseParagraph(t, o)
  \/ ScanStartTag
  \/ ScanText
  \/ ScanEndTag
  \/ Finish
  \/ ParseReturn

TextSpec == Init /\ [][TextNext]_vars


(***************************************************************************)
(* Properties                                                              *)
(***************************************************************************)

\* The indices of the entries of the sequence s that satisfy P.
Where(s, P(_)) == {i \in 1..Len(s) : P(s[i])}

\* The sequence s without its entry at index i.
Without(s, i) == SubSeq(s, 1, i - 1) \o SubSeq(s, i + 1, Len(s))

\* The run-once nodes inside an iteration that no enclosing iteration gives
\* a key, and that genOnce does not hand over to genIf.
OnceNoKeyNodes ==
  {e \in Elements :
     /\ nodes[e].once /\ nodes[e].staticInFor
     /\ ~Truthy(OnceKey(nodes, nodes[e].parent))
     /\ ~(Truthy(nodes[e].if) /\ ~nodes[e].ifProcessed)}

IsOnceWarning(w) == w.msg = OnceWarning
IsNoKeyEntry(x) == x.fn = "genOnce" /\ x.path = "nokey"

\* genOnce(e, st) against genElement(e, st) on the node already flagged
\* onceProcessed: the same text, the same counter and static render
\* functions, and one diagnostic more (none in a production build).
OnceAsOrdinary(e, st) ==
  LET r == Call("GenOnce", <<e, st>>)
      g == Call("GenElement", <<e, [st EXCEPT !.nodes[e].onceProcessed = TRUE]>>)
      n == Len(st.warnings)
  IN /\ r.code = g.code
     /\ r.st.onceId = g.st.onceId
     /\ r.st.fns = g.st.fns
     /\ IF st.opts.production
        THEN r.st.warnings = g.st.warnings
        ELSE /\ Len(r.st.warnings) = Len(g.st.warnings) + 1
             /\ r.st.warnings[n + 1] = [msg |-> OnceWarning, tip |-> FALSE]
             /\ Without(r.st.warnings, n + 1) = g.st.warnings

\* C11: a run-once node inside an iteration with no key from an enclosing
\* iteration: genOnce reports exactly one diagnostic (none in a production
\* build) and returns what genElement returns for the node, with the run-once
\* counter where genElement leaves it; in a whole generate call the node gets
\* no _o marker, and there is one diagnostic for each such node.
C11_OnceWithoutKey ==
  /\ pc = "optimized" =>
       \A e \in OnceNoKeyNodes : OnceAsOrdinary(e, GenState(nodes, warnings, options))
  /\ pc = "generated" =>
       /\ \A i \in Where(log, IsNoKeyEntry) :
            /\ \A j \in 1..Len(log) :
                 log[j].fn = "marker" => log[j].el # log[i].el \/ log[j].sid # log[i].sid
            /\ \A j \in Where(log, IsNoKeyEntry) :
                 log[j].el = log[i].el /\ log[j].sid = log[i].sid => j = i
       /\ Cardinality(Where(warnings, IsOnceWarning))
            = IF options.production THEN 0
              ELSE Cardinality(Where(log, IsNoKeyEntry))

\* C11: generate has compiled a run-once node that had no key.
C11_Witness ==
  /\ pc = "generated" /\ ~options.production
  /\ Where(log, IsNoKeyEntry) # {}
  /\ Where(warnings, IsOnceWarning) # {}

\* The iteration nodes genElement was entered for in the generate call, with
\* a component-like tag that is neither slot nor template.
ComponentLists ==
  {e \in Elements :
     /\ \E i \in 1..Len(log) : log[i].fn = "genElement" /\ log[i].el = e
     /\ Truthy(nodes[e].for)
     /\ maybeComponent(options, nodes[e])
     /\ Str(nodes[e].tag) # "slot" /\ Str(nodes[e].tag) # "template"}

IsKeyTip(w) == w.msg = KeyTip /\ w.tip

\* The entries of the trace where genFor reported the missing key of e.
KeyTipsOf(e) ==
  {i \in 1..Len(log) : log[i].fn = "genFor" /\ log[i].el = e /\ log[i].tip}

\* C12: in one generate call of a build with diagnostics, every compiled
\* iteration node with a component-like tag, neither slot nor template,
\* produces exactly one missing-key tip when it has no key and none when it
\* has one, and the sink receives no other missing-key tip.
C12_OneKeyTip ==
  pc = "generated" /\ ~options.production =>
    /\ \A e \in ComponentLists :
         Cardinality(KeyTipsOf(e)) = IF Truthy(nodes[e].key) THEN 0 ELSE 1
    /\ Cardinality(Where(warnings, IsKeyTip))
         = Cardinality({e \in ComponentLists : ~Truthy(nodes[e].key)})

RECURSIVE Nesting(_, _, _)
\* The events evs from the i-th on, read against the tags open so far: ok
\* says that every end event named the last tag opened and not yet ended,
\* open is what is left open.
Nesting(evs, i, open) ==
  IF i > Len(evs) THEN [ok |-> TRUE, open |-> open]
  ELSE IF evs[i].ev = "start" /\ ~evs[i].unary
  THEN Nesting(evs, i + 1, Append(open, evs[i].tag))
  ELSE IF evs[i].ev = "end"
  THEN IF open # <<>> /\ open[Len(open)] = evs[i].tag
       THEN Nesting(evs, i + 1, SubSeq(open, 1, Len(open) - 1))
       ELSE [ok |-> FALSE, open |-> open]
  ELSE Nesting(evs, i + 1, open)

StackTags == [i \in 1..Len(stack) |-> stack[i].tag]

IsEnd(ev) == ev.ev = "end"
IsOpening(ev) == ev.ev = "start" /\ ~ev.unary

\* C13: the start and end events are well nested: every end event names the
\* last element started, not self-closing and not yet ended; between two
\* steps of the tokenizer the elements started and not ended are those of
\* its stack; and when parseHTML has returned the stack is empty and every
\* start event that is not self-closing has had its end event.
C13_WellNested ==
  /\ Nesting(events, 1, <<>>).ok
  /\ pc \in {"scan", "cleanup"} => Nesting(events, 1, <<>>).open = StackTags
  /\ pc = "parsed" =>
       /\ stack = <<>>
       /\ Nesting(events, 1, <<>>).open = <<>>
       /\ Cardinality(Where(events, IsEnd)) = Cardinality(Where(events, IsOpening))

\* C13: parseHTML has returned after two elements were left open, one in the
\* other, and the clean-up has ended both.
C13_Witness ==
  /\ pc = "parsed"
  /\ \E i, j \in 1..Len(events) :
       /\ i + 1 < j /\ IsOpening(events[i]) /\ IsOpening(events[i + 1])
       /\ IsEnd(events[j - 1]) /\ IsEnd(events[j])
       /\ events[j].tag = events[i].tag /\ events[j - 1].tag = events[i + 1].tag
       /\ events[i].tag # events[i + 1].tag
  /\ \E k \in 1..Len(warnings) : warnings[k].msg = "tag has no matching end tag"

IsMalformedWarning(w) == w.msg = "Mal-formatted tag at end of template"

\* The loop of parseHTML was left by an iteration that made no progress:
\* input is left over.
StoppedWithoutProgress == pc = "cleanup" /\ html # <<>>

\* C14: when an iteration makes no progress, the whole remaining input is the
\* text of the last event, the loop is left, and, in a build with
\* diagnostics, the diagnostic of the malformed end of the template has been
\* reported, whether or not elements are still open.
C14_NoProgress ==
  StoppedWithoutProgress =>
    /\ events # <<>>
    /\ events[Len(events)] = [ev |-> "chars", text |-> html]
    /\ ~options.production => Where(warnings, IsMalformedWarning) # {}

\* The elements started and not ended before the j-th event.
OpenBefore(j) == Nesting(SubSeq(events, 1, j - 1), 1, <<>>).open

\* C15: with expectHTML, no start event of a non-phrasing tag is raised
\* while a p element is started and not ended: the end event of the
\* paragraph comes first.
C15_ParagraphClosed ==
  options.expectHTML =>
    \A j \in 1..Len(events) :
      events[j].ev = "start" /\ isNonPhrasingTag(events[j].tag) =>
        \A k \in 1..Len(OpenBefore(j)) : Str(OpenBefore(j)[k]) # "p"

\* C16: with expectHTML, no start event of a tag that can be left open is
\* raised while an element of the same name is started and not ended: the
\* end event of that element comes first.
C16_LeftOpenClosed ==
  options.expectHTML =>
    \A j \in 1..Len(events) :
      events[j].ev = "start" /\ canBeLeftOpenTag(Machine, events[j].tag) =>
        \A k \in 1..Len(OpenBefore(j)) : OpenBefore(j)[k] # events[j].tag

\* The iteration about to run reads an end tag.
ReadsEndTag == pc = "scan" /\ Call("Iteration", <<Machine>>).branch = "endTag"

\* The name of the end tag the input starts with.
EndTagName == Call("EndTagMatch", <<html>>).name

\* No open element has the name of the end tag, letter case aside.
Unmatched ==
  \A i \in 1..Len(stack) : stack[i].lowerCasedTag # toLowerCase(EndTagName)

\* The events parseEndTag raises for an end tag that matches no open element.
Synthesized(tagName) ==
  IF Str(toLowerCase(tagName)) = "br"
  THEN <<[ev |-> "start", tag |-> tagName, unary |-> TRUE]>>
  ELSE IF Str(toLowerCase(tagName)) = "p"
  THEN <<[ev |-> "start", tag |-> tagName, unary |-> FALSE],
         [ev |-> "end", tag |-> tagName]>>
  ELSE <<>>

\* C17: an iteration that reads an end tag matching no open element leaves
\* the stack as it was and raises no event, except one self-closing start
\* event for br, and a start event that is not self-closing followed by an
\* end event for p.
C17_StrayEndTag ==
  [][ReadsEndTag /\ Unmatched =>
       /\ stack' = stack
       /\ events' = events \o Synthesized(EndTagName)]_vars

\* C17: a stray </br> was read inside an open element, which is still open.
C17_Witness ==
  /\ pc = "scan" /\ stack # <<>> /\ events # <<>>
  /\ events[Len(events)] = [ev |-> "start", tag |-> <<"b", "r">>, unary |-> TRUE]
  /\ Nesting(events, 1, <<>>).open = StackTags
  /\ \E i \in 1..Len(template) - 4 :
       SubSeq(template, i, i + 4) = <<"<", "/", "b", "r", ">">>

\* The innermost open element is script, style or textarea.
InRawText ==
  lastTag # Undefined /\ Str(toLowerCase(lastTag)) \in {"script", "style", "textarea"}

\* The tokenizer is about to read the content of a raw-text element that has
\* an end tag further on.
AtRawContent ==
  /\ pc = "scan" /\ InRawText
  /\ StackedTagAt(html, toLowerCase(lastTag), 0) >= 0

\* The content up to the first end tag of the raw-text element.
RawContent == Slice(html, 0, StackedTagAt(html, toLowerCase(lastTag), 0))

\* The content, and the content without its first character when that is a
\* newline.
RawTexts ==
  {RawContent} \cup
  (IF RawContent # <<>> /\ RawContent[1] = "\n" THEN {Tail(RawContent)} ELSE {})

RECURSIVE TextOf(_, _)
\* The text of the text events of evs from the i-th on, in order.
TextOf(evs, i) ==
  IF i > Len(evs) THEN <<>>
  ELSE (IF evs[i].ev = "chars" THEN evs[i].text ELSE <<>>) \o TextOf(evs, i + 1)

\* The input is <tag>, content without markup, </tag>.
Encloses(tag, content) ==
  /\ template = <<"<">> \o tag \o <<">">> \o content \o <<"<", "/">> \o tag \o <<">">>
  /\ \A i \in 1..Len(content) : content[i] # "<"

\* The content of the input when it is one element named tag around text.
ContentIn(tag) == SubSeq(template, Len(tag) + 3, Len(template) - Len(tag) - 3)

\* C19: for one pre or textarea element around text, the text raised is the
\* content without its first character when that is a newline, and the
\* whole content otherwise: every character after the first is raised, a
\* second newline included.
C19_FirstNewline ==
  pc = "parsed" =>
    \A tag \in {<<"p", "r", "e">>, <<"t", "e", "x", "t", "a", "r", "e", "a">>} :
      Len(template) >= 2 * Len(tag) + 5 /\ Encloses(tag, ContentIn(tag)) =>
        TextOf(events, 1) = IF ContentIn(tag) # <<>> /\ ContentIn(tag)[1] = "\n"
                            THEN Tail(ContentIn(tag))
                            ELSE ContentIn(tag)

\* The node of the k-th element created.
ElementAt(k) ==
  CHOOSE e \in Elements : Cardinality({j \in Elements : j <= e}) = k

HasAttr(e, name) == \E a \in DOMAIN nodes[e].attrsMap : Str(a) = name

RECURSIVE VPreScan(_, _, _, _, _, _)
\* The events evs from the i-th on, the k-th element being the last one
\* started, open the elements started and not ended: owner is the open
\* element whose v-pre started the mode now active (0 for none), raw the
\* elements started while the mode was active.
VPreScan(evs, i, k, open, owner, raw) ==
  IF i > Len(evs) THEN [owner |-> owner, raw |-> raw]
  ELSE IF evs[i].ev = "start"
  THEN LET e == ElementAt(k + 1)
           marked == owner = 0 /\ HasAttr(e, "v-pre")
           owner1 == IF marked THEN e ELSE owner
           raw1 == IF owner1 # 0 THEN raw \cup {e} ELSE raw
       IN IF evs[i].unary
          THEN VPreScan(evs, i + 1, k + 1, open, owner, raw1)
          ELSE VPreScan(evs, i + 1, k + 1, Append(open, e), owner1, raw1)
  ELSE IF evs[i].ev = "end"
  THEN VPreScan(evs, i + 1, k, SubSeq(open, 1, Len(open) - 1),
                IF open[Len(open)] = owner THEN 0 ELSE owner, raw)
  ELSE VPreScan(evs, i + 1, k, open, owner, raw)

VPreNow == VPreScan(events, 1, 0, <<>>, 0, {})

\* The attributes of element e are its attribute list with every value as a
\* JSON string, and e has no iteration, no condition and no run-once flag.
KeptRaw(e) ==
  /\ nodes[e].attrs =
       [i \in 1..Len(nodes[e].attrsList) |->
          [name |-> nodes[e].attrsList[i].name,
           value |-> JsonStringify(nodes[e].attrsList[i].value)]]
  /\ {Str(nodes[e].attrsList[i].name) : i \in 1..Len(nodes[e].attrsList)}
       = {Str(a) : a \in DOMAIN nodes[e].attrsMap}
           \ (IF nodes[e].pre THEN {"v-pre"} ELSE {})
  /\ ~Truthy(nodes[e].for) /\ ~Truthy(nodes[e].if) /\ ~nodes[e].once
  /\ ~nodes[e].else /\ ~Truthy(nodes[e].elseif)

\* Element e went through the directive pipeline: its directives are flags
\* of the node and none of them is left among its plain attributes.
Processed(e) ==
  /\ ~nodes[e].pre
  /\ \A i \in 1..Len(nodes[e].attrs) : DirPrefix(nodes[e].attrs[i].name) = 0
  /\ HasAttr(e, "v-for") => Truthy(nodes[e].for)
  /\ HasAttr(e, "v-if") => Truthy(nodes[e].if)
  /\ HasAttr(e, "v-once") => nodes[e].once

\* C20: between two steps of the tokenizer inVPre is on exactly when an
\* element whose v-pre switched it on is started and not ended (a
\* self-closing one switches it off at once); the elements started while it
\* was on keep their attributes as JSON strings and have no iteration,
\* condition or run-once flag; the other elements went through the
\* directive pipeline.
C20_VPre ==
  pc \in {"scan", "cleanup", "parsed"} =>
    /\ inVPre = (VPreNow.owner # 0)
    /\ \A e \in VPreNow.raw : KeptRaw(e)
    /\ \A e \in Elements \ VPreNow.raw : Processed(e)
    /\ \A e \in Elements : nodes[e].pre => e \in VPreNow.raw

\* C20: an element with directives was started inside an element with v-pre
\* and another after that element was closed.
C20_Witness ==
  /\ pc = "parsed"
  /\ \E a, b \in Elements :
       /\ a \in VPreNow.raw /\ ~nodes[a].pre /\ HasAttr(a, "v-if")
       /\ b \notin VPreNow.raw /\ HasAttr(b, "v-for") /\ a < b

\* The branches of genElement in their fixed order; the normal element is
\* what is left when none of them applies.
BranchOrder == <<"static", "once", "for", "if", "template", "slot">>

\* Whether the k-th branch applies to a node with the flags f.
Applies(f, k) ==
  CASE k = 1 -> f.staticRoot /\ ~f.staticProcessed
    [] k = 2 -> f.once /\ ~f.onceProcessed
    [] k = 3 -> f.for /\ ~f.forProcessed
    [] k = 4 -> f.if /\ ~f.ifProcessed
    [] k = 5 -> f.tag = "template" /\ ~f.slotTarget /\ ~f.statePre
    [] k = 6 -> f.tag = "slot"

\* The earliest branch that applies.
EarliestBranch(f) ==
  LET ks == {k \in 1..Len(BranchOrder) : Applies(f, k)}
  IN IF ks = {} THEN "normal"
     ELSE BranchOrder[CHOOSE k \in ks : \A j \in ks : k <= j]

\* The nodes with both an iteration and a conditional to compile, and
\* neither a static hoist nor a run-once.
ForIfNodes ==
  {e \in Elements :
     /\ Truthy(nodes[e].for) /\ ~nodes[e].forProcessed
     /\ Truthy(nodes[e].if) /\ ~nodes[e].ifProcessed
     /\ ~nodes[e].staticRoot /\ ~nodes[e].once}

\* genElement(e, st) is an iteration call whose closure returns the
\* conditional chain genIf writes for the node.
IterationOfChain(e, st) ==
  LET n == st.nodes[e]
      r == Call("GenElement", <<e, st>>)
      c == Call("GenIf", <<e, [st EXCEPT !.nodes[e].forProcessed = TRUE]>>)
  IN r.code = "_l((" \o Str(n.for) \o "),function(" \o Str(n.alias)
                \o (IF Truthy(n.iterator1) THEN "," \o Str(n.iterator1) ELSE "")
                \o (IF Truthy(n.iterator2) THEN "," \o Str(n.iterator2) ELSE "")
                \o "){return " \o c.code \o "})"

\* C1: every entry of genElement takes the earliest branch that applies in
\* the order static hoist, run-once, iteration, conditional, transparent
\* template, slot outlet, normal element; a node with an iteration and a
\* conditional, neither static nor run-once, compiles to an iteration call
\* whose closure body is the conditional chain.
C1_FirstBranch ==
  /\ \A i \in 1..Len(log) :
       log[i].fn = "genElement" => log[i].br = EarliestBranch(log[i].flags)
  /\ pc = "optimized" =>
       \A e \in ForIfNodes : IterationOfChain(e, GenState(nodes, warnings, options))

\* C1: generate has compiled a node with both an iteration and a conditional
\* pending, and took the iteration.
C1_Witness ==
  /\ pc = "generated"
  /\ \E i \in 1..Len(log) :
       /\ log[i].fn = "genElement" /\ log[i].br = "for"
       /\ log[i].flags.if /\ ~log[i].flags.ifProcessed
       /\ ~log[i].flags.staticRoot /\ ~log[i].flags.once

RECURSIVE Chain(_, _)
\* The right-associated conditional expression over the compiled branches
\* from the i-th on: (g)?B:rest for a guarded branch, B for a branch
\* without a guard, the empty-node marker when no branch is left.
Chain(parts, i) ==
  IF i > Len(parts) THEN "_e()"
  ELSE IF Truthy(parts[i].exp)
  THEN "(" \o Str(parts[i].exp) \o ")?" \o parts[i].code \o ":" \o Chain(parts, i + 1)
  ELSE parts[i].code

\* A conditional group where only the last branch may lack a guard.
DefaultLast(conditions) ==
  \A k \in 1..Len(conditions) - 1 : Truthy(conditions[k].exp)

IsGenIf(x) == x.fn = "genIf"

\* C2: for a conditional group with the branches (g1,B1),...,(gn,Bn), where
\* only the last may lack a guard, genIf compiles every branch in order and
\* returns the right-associated chain (g1)?B1:(g2)?B2:...; a last branch
\* without a guard is the unconditional tail, and _e() is the tail when
\* every branch has a guard.
C2_TernaryChain ==
  \A i \in Where(log, IsGenIf) :
     DefaultLast(log[i].conditions) =>
        /\ Len(log[i].parts) = Len(log[i].conditions)
        /\ \A k \in 1..Len(log[i].parts) :
             /\ log[i].parts[k].exp = log[i].conditions[k].exp
             /\ log[i].parts[k].block = log[i].conditions[k].block
        /\ log[i].code = Chain(log[i].parts, 1)

\* C2: genIf has compiled a group of three branches, the last one without a
\* guard.
C2_Witness ==
  /\ pc = "generated"
  /\ \E i \in Where(log, IsGenIf) :
       /\ Len(log[i].conditions) = 3
       /\ Truthy(log[i].conditions[1].exp) /\ Truthy(log[i].conditions[2].exp)
       /\ ~Truthy(log[i].conditions[3].exp)
       /\ log[i].code # ""

\* The indices of the entries of a conditional group that have no guard.
Unguarded(conditions) ==
  {k \in 1..Len(conditions) : ~Truthy(conditions[k].exp)}

\* C3: in the AST parse produces, every conditional group has at most one
\* entry without a guard, and such an entry is the last of the group.
C3_DefaultBranchLast ==
  pc = "parsed" => \A e \in Elements :
     /\ Cardinality(Unguarded(nodes[e].ifConditions)) <= 1
     /\ \A k \in Unguarded(nodes[e].ifConditions) : k = Len(nodes[e].ifConditions)

\* The sequence s starts with the sequence t.
StartsWith(s, t) == Len(t) <= Len(s) /\ SubSeq(s, 1, Len(t)) = t

IsGenStatic(x) == x.fn = "genStatic"

\* The entry of the trace where the compile with the id sid returned.
IsReturnOf(x, sid) == x.fn = "generated" /\ x.sid = sid

\* What the static hoist recorded in x did to the static render functions:
\* the entries it found are still there, the node's own program is the one
\* entry behind those of the hoists nested in it, and the reference returned
\* carries the index of that entry.
HoistsOne(x) ==
  LET own == Len(x.after) - 1
  IN /\ StartsWith(x.inner, x.before)
     /\ x.after = Append(x.inner, "with(this){return " \o x.body \o "}")
     /\ x.code \in {"_m(" \o ToString(own) \o ")", "_m(" \o ToString(own) \o ",true)"}

\* C4: every static hoist appends one entry to the static render functions
\* of its compile and returns _m(i) with i the index of that entry; two
\* hoists of one compile have different indices, also for identical nodes
\* and for nested hoists, and the entry is still in its place when generate
\* returns.
C4_StaticHoist ==
  \A i \in Where(log, IsGenStatic) :
     /\ HoistsOne(log[i])
     /\ \A j \in Where(log, IsGenStatic) :
          j # i /\ log[j].sid = log[i].sid => Len(log[j].after) # Len(log[i].after)
     /\ \A j \in 1..Len(log) :
          IsReturnOf(log[j], log[i].sid) /\ j > i => StartsWith(log[j].fns, log[i].after)

\* C4: one compile has hoisted two identical static nodes.
C4_Witness ==
  /\ pc = "generated"
  /\ \E i, j \in Where(log, IsGenStatic) :
       /\ i < j /\ log[i].sid = log[j].sid /\ log[i].body = log[j].body
       /\ log[i].code = "_m(0)" /\ log[j].code = "_m(1)"
       /\ Len(result.staticRenderFns) = 2

IsGenInlineTemplate(x) == x.fn = "genInlineTemplate"
IsReturn(x) == x.fn = "generated"

\* The static hoists of the compile with the id sid, in the trace.
HoistsOf(sid) == {i \in Where(log, IsGenStatic) : log[i].sid = sid}

RECURSIVE Factories(_, _)
\* fns.map(code => `function(){${code}}`).join(','), from the i-th on.
Factories(fns, i) ==
  IF i > Len(fns) THEN ""
  ELSE "function(){" \o fns[i] \o "}"
       \o (IF i < Len(fns) THEN "," ELSE "") \o Factories(fns, i + 1)

\* C5: the nested compile of an inline-template element leaves the static
\* render functions and the run-once counter of the enclosing compile as
\* they were; its own static render functions hold exactly the programs of
\* its own hoists, indexed from 0, and are embedded in the inlineTemplate
\* factory; the list a compile returns holds only its own hoists.
C5_NestedCompile ==
  /\ \A i \in Where(log, IsGenInlineTemplate) :
       /\ log[i].outerAfter = log[i].outerBefore
       /\ log[i].nested # log[i].sid
       /\ Len(log[i].nestedFns) = Cardinality(HoistsOf(log[i].nested))
       /\ \A j \in HoistsOf(log[i].nested) :
            /\ j < i
            /\ StartsWith(log[i].nestedFns, log[j].after)
            /\ Cardinality({k \in HoistsOf(log[i].nested) : k <= j}) = Len(log[j].after)
       /\ log[i].code = "inlineTemplate:{render:function(){" \o log[i].nestedRender
                          \o "},staticRenderFns:[" \o Factories(log[i].nestedFns, 1) \o "]}"
  /\ \A i \in Where(log, IsReturn) :
       Len(log[i].fns) = Cardinality(HoistsOf(log[i].sid))

\* C5: an inline-template element was compiled after the enclosing compile
\* had hoisted a static node, and the nested compile hoisted one of its own.
C5_Witness ==
  /\ pc = "generated"
  /\ \E i \in Where(log, IsGenInlineTemplate) :
       /\ log[i].outerBefore.fns # <<>>
       /\ log[i].nestedFns # <<>>
       /\ Len(result.staticRenderFns) = Len(log[i].outerBefore.fns)

\* C6: a second generate of the same AST with the same options returns the
\* render program and the static render functions the first one returned.
C6_GenerateTwice ==
  pc = "generated2" =>
     /\ again.render = result.render
     /\ again.staticRenderFns = result.staticRenderFns

\* parse(template, options) of the call in progress, made with the
\* module-level state no call has touched yet.
FreshParse == parse(template, options, CleanGlobals)

\* generate on the AST of FreshParse, marked as the optimizer marked the AST
\* of the call in progress.
FreshGenerate ==
  LET f == FreshParse
  IN Call("Generate", <<f.root, GenState(ApplyMarks(f.nodes, marks), f.warnings, options)>>)

\* C7: what a call of the compiler returns for a markup and an option set
\* is what it returns when no call was made before: the AST of parse and
\* the program text of generate do not depend on the delimiters, the
\* platform functions and the pattern objects that earlier calls left.
C7_SameEveryTime ==
  /\ pc = "parsed" =>
       /\ nodes = FreshParse.nodes /\ root = FreshParse.root
       /\ warnings = FreshParse.warnings
  /\ pc = "generated" =>
       /\ result.render = FreshGenerate.render
       /\ result.staticRenderFns = FreshGenerate.staticRenderFns

\* C7: the second call compiled text with interpolations under the default
\* delimiters after a call whose options set other delimiters.
C7_Witness ==
  /\ pc = "generated" /\ calls = 2
  /\ template = T_Delimiters
  /\ options.delimiters = Undefined
  /\ DOMAIN re.cache # {}

\* The options of the call in progress with the production setting flipped.
OtherBuild == [options EXCEPT !.production = ~@]

\* parse and generate of the call in progress, made in the other build.
ParseOtherBuild == parse(template, OtherBuild, CleanGlobals)

GenerateOtherBuild ==
  LET f == ParseOtherBuild
  IN Call("Generate", <<f.root, GenState(ApplyMarks(f.nodes, marks), f.warnings, OtherBuild)>>)

\* C8: the AST parse builds and the program text generate emits are the same
\* with diagnostics emitted and with diagnostics suppressed.
C8_ProductionSameResult ==
  /\ pc = "parsed" =>
       nodes = ParseOtherBuild.nodes /\ root = ParseOtherBuild.root
  /\ pc = "generated" =>
       /\ result.render = GenerateOtherBuild.render
       /\ result.staticRenderFns = GenerateOtherBuild.staticRenderFns

\* C8: a production build compiled a template for which the other build
\* reports a diagnostic from the parser and one from the generator.
C8_Witness ==
  /\ pc = "generated" /\ options.production
  /\ ParseOtherBuild.warnings # <<>>
  /\ Len(GenerateOtherBuild.st.warnings) > Len(ParseOtherBuild.warnings)

\* C9: no step of parse raises an error, whatever event the tokenizer hands
\* over, and parse returns a root element or nothing.
C9_ParseNeverAborts ==
  /\ [][(pc \in {"idle", "scan", "cleanup"}) => (pc' # "threw" /\ ~threw')]_vars
  /\ [](pc = "parsed" => root = 0 \/ nodes[root].type = 1)

InlineWarning == "Inline-template components must have exactly one child element."

\* The inline-template elements whose children are not exactly one element.
BadInlineTemplates ==
  {e \in Elements :
     /\ nodes[e].inlineTemplate
     /\ \/ Len(nodes[e].children) # 1
        \/ nodes[nodes[e].children[1]].type # 1}

\* genInlineTemplate and genData on e complete, with one diagnostic more in
\* a build with diagnostics, and without the inlineTemplate field when
\* there is no first child that is an element.
DiagnosedAndCompleted(e, st) ==
  LET r == Call("GenInlineTemplate", <<e, st>>)
      d == Call("GenData", <<e, st>>)
      children == st.nodes[e].children
  IN /\ ~r.st.threw /\ ~d.st.threw
     /\ ~st.opts.production =>
          r.st.warnings = Append(st.warnings, [msg |-> InlineWarning, tip |-> FALSE])
     /\ (children = <<>> \/ st.nodes[children[1]].type # 1) => r.code = ""

\* C10: for an inline-template element with no child, several children or a
\* single child that is not an element, generation reports a diagnostic and
\* completes, and the data object has no inlineTemplate field when the
\* first child is not an element.
C10_InlineTemplateDiagnosed ==
  pc = "optimized" =>
     \A e \in BadInlineTemplates :
        DiagnosedAndCompleted(e, GenState(nodes, warnings, options))

\* The nodes one step away from node n in the tree: its children, the
\* blocks of its conditional group and its scoped slots.
Successors(n) ==
  {nodes[n].children[k] : k \in 1..Len(nodes[n].children)}
    \cup {nodes[n].ifConditions[k].block : k \in 1..Len(nodes[n].ifConditions)}
    \cup {nodes[n].scopedSlots[k].el : k \in 1..Len(nodes[n].scopedSlots)}

RECURSIVE ReachFrom(_)
\* The nodes reachable from the set S of nodes.
ReachFrom(S) ==
  LET T == S \cup UNION {Successors(n) : n \in S}
  IN IF T = S THEN S ELSE ReachFrom(T)

\* The returned tree.
Tree == IF root = 0 THEN {} ELSE ReachFrom({root})

\* The elements started while no element was open and a root existed.
ExtraRoots == {e \in Elements : nodes[e].parent = 0 /\ e # root}

IsRootWarning(w) == w.msg = "Component template should contain exactly one root element"

\* C21: the root is the element of the first start event; an element
\* started while no element is open and a root exists is in the returned
\* tree only as a branch of the root's conditional group, which it is
\* exactly when the root has a guard and the element an else-if or else
\* marker, and otherwise it is diagnosed (in a build with diagnostics).
C21_OneRoot ==
  pc \in {"scan", "cleanup", "parsed"} =>
    /\ root = (IF Elements = {} THEN 0 ELSE CHOOSE e \in Elements : \A d \in Elements : e <= d)
    /\ \A e \in ExtraRoots :
         LET chained == Truthy(nodes[root].if) /\ (Truthy(nodes[e].elseif) \/ nodes[e].else)
         IN /\ e \in Tree <=> chained
            /\ chained <=> \E k \in 1..Len(nodes[root].ifConditions) :
                              nodes[root].ifConditions[k].block = e
            /\ ~chained /\ ~options.production => Where(warnings, IsRootWarning) # {}

\* The slot name of element e: slotTarget, "default" when it names none.
SlotNameOf(e) ==
  IF Truthy(nodes[e].slotTarget) THEN nodes[e].slotTarget
  ELSE <<"\"", "d", "e", "f", "a", "u", "l", "t", "\"">>

\* The elements with a scope parameter and a parent.
ScopedElements ==
  {e \in Elements : Truthy(nodes[e].slotScope) /\ nodes[e].parent # 0}

\* C22: every element with a scope parameter and a parent is the entry of
\* its parent's scoped slots under its slot name, "default" when it names
\* none, and is not among the parent's children.
C22_ScopedSlotRegistered ==
  pc = "parsed" =>
    \A e \in ScopedElements :
       LET p == nodes[e].parent
       IN /\ \E k \in 1..Len(nodes[p].scopedSlots) :
               /\ nodes[p].scopedSlots[k].key = SlotNameOf(e)
               /\ nodes[p].scopedSlots[k].el = e
          /\ \A k \in 1..Len(nodes[p].children) : nodes[p].children[k] # e

\* The element the step has started, 0 when it has started none.
Started ==
  IF Len(nodes') > Len(nodes) /\ nodes'[Len(nodes) + 1].type = 1
  THEN Len(nodes) + 1 ELSE 0

\* The position in the child sequence cs of its last element, 0 when it
\* holds none.
LastElementIn(cs) ==
  LET ks == {k \in 1..Len(cs) : nodes[cs[k]].type = 1}
  IN IF ks = {} THEN 0 ELSE CHOOSE k \in ks : \A j \in ks : j <= k

IsElseWarning(w) == w.msg = "v-else(-if) used on element without corresponding v-if"

\* What the start of the element e with an else-if or else marker under the
\* parent p does: the children of p behind its last element are removed; e
\* becomes the last branch of the group of that element when it has a
\* guard; otherwise one diagnostic is reported (in a build with
\* diagnostics) and e is in no group.  e is never a child of p.
ElseAttached(e, p) ==
  LET cs == nodes[p].children
      k == LastElementIn(cs)
      prev == IF k = 0 THEN 0 ELSE cs[k]
  IN /\ nodes'[p].children = SubSeq(cs, 1, k)
     /\ IF prev # 0 /\ Truthy(nodes[prev].if)
        THEN nodes'[prev].ifConditions =
               Append(nodes[prev].ifConditions, [exp |-> nodes'[e].elseif, block |-> e])
        ELSE /\ \A d \in 1..Len(nodes) :
                  nodes[d].type = 1 => nodes'[d].ifConditions = nodes[d].ifConditions
             /\ Cardinality(Where(warnings', IsElseWarning))
                  = Cardinality(Where(warnings, IsElseWarning))
                    + (IF options.production THEN 0 ELSE 1)

HasElseMarker(n) == Truthy(n.elseif) \/ n.else

\* C23 as stated: every element started with an else-if or else marker
\* under a parent is attached in this way.
C23_ElseAttachedAlways ==
  [][(Started # 0 /\ HasElseMarker(nodes'[Started]) /\ nodes'[Started].parent # 0)
       => ElseAttached(Started, nodes'[Started].parent)]_vars

\* C23: an element started with an else-if or else marker under a parent,
\* and that is not a forbidden tag, becomes the last branch of the
\* conditional group of the nearest preceding element among the parent's
\* children when that element has a guard; it is never made a child of the
\* parent, the text and comment children behind that element are removed,
\* and when there is no such guarded element a diagnostic is reported and
\* the element is in no group.
C23_ElseAttached ==
  [][(/\ Started # 0 /\ HasElseMarker(nodes'[Started])
      /\ nodes'[Started].parent # 0 /\ ~nodes'[Started].forbidden)
       => ElseAttached(Started, nodes'[Started].parent)]_vars

\* C23: a conditional group has received an else branch, and the text between
\* the guarded element and that branch was removed from the parent.
C23_Witness ==
  /\ pc = "parsed"
  /\ \E e \in Elements :
       /\ Len(nodes[e].ifConditions) = 2
       /\ nodes[nodes[e].ifConditions[2].block].else
       /\ nodes[e].parent # 0
       /\ nodes[nodes[e].parent].children = <<e>>
       /\ \E t \in 1..Len(nodes) : nodes[t].type = 3 /\ nodes[t].text = <<" ", "t", " ">>

\* The delimiter pair in force: that of the options, {{ }} when they set
\* none.
DelimitersInForce == IF delimiters = Undefined THEN DefaultDelimiters ELSE delimiters

\* The 0-based positions c at which a delimiter span that opens at position
\* s of text may close: the opening delimiter is at s, the closing one at c,
\* and at least one character, none of them a line terminator other than
\* the newline, is between them.
ClosesOf(text, s, d) ==
  {c \in s + Len(d[1]) + 1 .. Len(text) - Len(d[2]) :
     /\ MatchesAt(text, s, d[1]) /\ MatchesAt(text, c, d[2])
     /\ \A i \in s + Len(d[1]) + 1 .. c : text[i] \notin {"\r", LS, PS}}

\* The positions at or after p where a delimiter span opens.
OpensOf(text, p, d) == {s \in p..Len(text) : ClosesOf(text, s, d) # {}}

Least(S) == CHOOSE x \in S : \A y \in S : x <= y

RECURSIVE Segments(_, _, _)
\* The segments of text from position p on, in text order: the leftmost
\* delimiter span, closed as early as possible, is a binding of the
\* filter-resolved expression between its delimiters; what is before it,
\* and what is left behind the last span, is a literal unless it is empty.
Segments(text, p, d) ==
  IF OpensOf(text, p, d) = {}
  THEN IF p < Len(text)
       THEN <<[binding |-> FALSE, value |-> Slice(text, p, Len(text))]>>
       ELSE <<>>
  ELSE LET s == Least(OpensOf(text, p, d))
           c == Least(ClosesOf(text, s, d))
           inner == Slice(text, s + Len(d[1]), c)
       IN (IF s > p THEN <<[binding |-> FALSE, value |-> Slice(text, p, s)]>> ELSE <<>>)
          \o <<[binding |-> TRUE, value |-> Call("parseFilters", <<Trim(inner)>>)]>>
          \o Segments(text, c + Len(d[2]), d)

\* The piece of the expression for a segment.
PieceOf(seg) ==
  IF seg.binding THEN <<"_", "s", "(">> \o seg.value \o <<")">>
  ELSE JsonStringify(seg.value)

\* The text nodes with an expression, and those without.
ExpressionNodes == {n \in 1..Len(nodes) : nodes[n].type = 2}
LiteralNodes == {n \in 1..Len(nodes) : nodes[n].type = 3 /\ ~nodes[n].isComment}

\* C24: when the text has a delimiter span, the expression of parseText is
\* the '+'-join, in text order, of one piece for each segment, a JSON string
\* for a literal and _s(...) around the filter-resolved expression for a
\* span, and the raw tokens are the segments themselves: as many as the
\* pieces, the i-th a string exactly when the i-th piece is a literal.  A
\* text without a span gets no expression.
C24_TextExpression ==
  /\ \A n \in ExpressionNodes :
       LET segs == Segments(nodes[n].text, 0, DelimitersInForce)
       IN /\ \E i \in 1..Len(segs) : segs[i].binding
          /\ nodes[n].tokens = segs
          /\ nodes[n].expression = JoinChars([i \in 1..Len(segs) |-> PieceOf(segs[i])], <<"+">>)
  /\ \A n \in LiteralNodes :
       nodes[n].text # <<" ">> => OpensOf(nodes[n].text, 0, DelimitersInForce) = {}

\* C24: the text a {{ b | f }} c was parsed: a literal, the call of the
\* filter f on b, and a literal.
C24_Witness ==
  \E n \in ExpressionNodes :
     /\ nodes[n].text = <<"a", " ", "{", "{", " ", "b", " ", "|", " ", "f", " ", "}", "}", " ", "c">>
     /\ Len(nodes[n].tokens) = 3
     /\ Str(nodes[n].expression) = "\"a \"+_s(_f(\"f\")(b))+\" c\""

Steps == {"static", "once", "for", "if"}

GuardOf(f, step) ==
  CASE step = "static" -> f.staticProcessed
    [] step = "once" -> f.onceProcessed
    [] step = "for" -> f.forProcessed
    [] step = "if" -> f.ifProcessed

\* Entry x of the trace is a call of the step: genStatic is called by
\* genElement and by genOnce, genOnce by genElement and by genTernaryExp,
\* genFor by genElement, genIf by genElement and by genOnce.
Enters(x, step) ==
  CASE step = "static" -> \/ x.fn = "genElement" /\ x.br = "static"
                          \/ x.fn = "genOnce" /\ x.path = "static"
    [] step = "once" -> x.fn = "genOnce"
    [] step = "for" -> x.fn = "genFor"
    [] step = "if" -> \/ x.fn = "genElement" /\ x.br = "if"
                      \/ x.fn = "genOnce" /\ x.path = "if"

\* The entries of the trace that are calls of the step on node e under the
\* CodegenState sid.
EntriesOf(step, e, sid) ==
  {i \in 1..Len(log) :
     /\ log[i].fn \in {"genElement", "genOnce", "genFor"}
     /\ log[i].el = e /\ log[i].sid = sid
     /\ Enters(log[i], step)}

\* The entries of genElement on node e under the CodegenState sid.
ElementEntries(e, sid) ==
  {i \in 1..Len(log) :
     log[i].fn = "genElement" /\ log[i].el = e /\ log[i].sid = sid}

StateIds == {log[i].sid : i \in 1..Len(log)}

\* Each step is entered at most once per node within one generate call.
EnteredOnce ==
  \A sid \in StateIds : \A e \in Elements : \A step \in Steps :
     Cardinality(EntriesOf(step, e, sid)) <= 1

\* Every genElement on the node after the entry of a step finds its guard set.
GuardSetBeforeRecursion ==
  \A sid \in StateIds : \A e \in Elements : \A step \in Steps :
     \A i \in EntriesOf(step, e, sid) : \A j \in ElementEntries(e, sid) :
        i < j => GuardOf(log[j].flags, step)

\* A guard genElement found set is set at every later genElement on the node.
GuardStaysSet ==
  \A sid \in StateIds : \A e \in Elements : \A step \in Steps :
     \A i, j \in ElementEntries(e, sid) :
        i < j /\ GuardOf(log[i].flags, step) => GuardOf(log[j].flags, step)

\* C25: within one generate call each structural compile step (static
\* hoist, run-once, iteration, conditional) is entered at most once per
\* node, its guard is set before any recursion into the same node, and a
\* guard that is set is never cleared.
C25_GuardsOnce ==
  /\ EnteredOnce
  /\ GuardSetBeforeRecursion
  /\ GuardStaysSet

\* The guards genElement finds set.
SetGuards(f) == {step \in Steps : GuardOf(f, step)}

\* The branches of genElement that go to another structural step on the
\* same node; the other ones compile the node's data and children.
Structural == {"static", "once", "for", "if"}

\* Each genElement on a node finds strictly more guards set than the one
\* before it on that node, so a node is entered at most five times.
Descends(e, sid) ==
  /\ \A i, j \in ElementEntries(e, sid) :
        i < j => /\ SetGuards(log[i].flags) \subseteq SetGuards(log[j].flags)
                 /\ SetGuards(log[i].flags) # SetGuards(log[j].flags)
                 /\ log[i].br \in Structural
  /\ Cardinality(ElementEntries(e, sid)) <= Cardinality(Steps) + 1
  /\ Cardinality({i \in 1..Len(log) :
                    /\ log[i].fn = "genForScopedSlot"
                    /\ log[i].el = e /\ log[i].sid = sid}) <= 1

\* generate returns on the marked AST: with the program, or by throwing.
GenerateReturns ==
  LET g == Call("Generate", <<root, GenState(nodes, warnings, options)>>)
  IN \/ g.st.threw
     \/ g.st.log[Len(g.st.log)].fn = "generated"

\* C26: generate terminates on the AST whatever staticRoot, once, for, if,
\* staticInFor, scoped-slot and inline-template flags its nodes have: the
\* mutual recursion of genElement, genStatic, genOnce, genFor, genIf and
\* genScopedSlot enters a node a bounded number of times, each time with
\* more guards set, before it compiles the node's children.
C26_Terminates ==
  /\ pc = "optimized" => GenerateReturns
  /\ \A sid \in StateIds : \A e \in Elements : Descends(e, sid)

\* C26: generate has returned for a node that genElement entered through
\* three structural steps before it compiled the node's children.
C26_Witness ==
  /\ pc = "generated"
  /\ \E sid \in StateIds : \E e \in Elements :
        Cardinality(ElementEntries(e, sid)) >= 4

\* The memoization markers emitted under the CodegenState sid, as indices
\* of the trace, and the entries that close a generate call.
MarkersOf(sid) ==
  {i \in 1..Len(log) : log[i].fn = "marker" /\ log[i].sid = sid}

IsGenerated(x, sid) == x.fn = "generated" /\ x.sid = sid

\* The marker whose subtree holds the marker of node e: a strict ancestor.
RECURSIVE IsAncestor(_, _)
IsAncestor(a, e) ==
  /\ e # 0
  /\ nodes[e].parent # 0
  /\ (nodes[e].parent = a \/ IsAncestor(a, nodes[e].parent))

\* C27: within one CodegenState the run-once counter starts at 0 and only
\* increases, and the ids of the memoization markers emitted under it are
\* pairwise distinct and are exactly 0..n-1 for n markers, also when one
\* memoized node is inside another.
C27_OnceIds ==
  \A sid \in StateIds :
     LET M == MarkersOf(sid)
     IN /\ \A i, j \in M : i # j => log[i].id # log[j].id
        /\ {log[i].id : i \in M} = 0..Cardinality(M) - 1
        /\ \A i, j \in M : i < j => log[i].id < log[j].id
        /\ \A k \in 1..Len(log) :
              IsGenerated(log[k], sid) =>
                 log[k].onceId = Cardinality({i \in M : i < k})

\* C27: a compile emitted three markers, one of them for a node inside
\* another memoized node.
C27_Witness ==
  /\ pc = "generated"
  /\ \E sid \in StateIds :
        /\ Cardinality(MarkersOf(sid)) = 3
        /\ \E i, j \in MarkersOf(sid) : IsAncestor(log[j].el, log[i].el)

\* The strict ancestors of node e that have an iteration binding, and the
\* nearest of them: the one no other is below.
IterationAncestors(e) ==
  {a \in Elements : IsAncestor(a, e) /\ Truthy(nodes[a].for)}

Nearest(e) ==
  {a \in IterationAncestors(e) :
     \A b \in IterationAncestors(e) : ~IsAncestor(a, b)}

IsMemoEntry(x) == x.fn = "genOnce" /\ x.path = "memo"
IsMarker(x) == x.fn = "marker"

\* C28: the key in a memoization marker is the key of the nearest strict
\* ancestor with an iteration binding; when that ancestor has no key, or
\* there is none, genOnce gives the missing-key diagnostic and no marker,
\* whatever key a farther iteration ancestor has.
C28_NearestKey ==
  pc = "generated" =>
     /\ \A i \in Where(log, IsMarker) :
           \E a \in Nearest(log[i].el) :
              Truthy(nodes[a].key) /\ log[i].key = nodes[a].key
     /\ \A i \in Where(log, IsMemoEntry) :
           \E a \in Nearest(log[i].el) : Truthy(nodes[a].key)
     /\ \A i \in Where(log, IsNoKeyEntry) :
           /\ \A a \in Nearest(log[i].el) : ~Truthy(nodes[a].key)
           /\ ~options.production => Where(warnings, IsOnceWarning) # {}
           /\ \A j \in Where(log, IsMarker) : log[j].el # log[i].el

\* C28: genOnce gave the diagnostic for a node whose nearest iteration
\* ancestor has no key while a farther one has.
C28_Witness ==
  /\ pc = "generated"
  /\ \E i \in Where(log, IsNoKeyEntry) :
        /\ \E a \in Nearest(log[i].el) : ~Truthy(nodes[a].key)
        /\ \E b \in IterationAncestors(log[i].el) : Truthy(nodes[b].key)
        /\ Where(warnings, IsOnceWarning) # {}

\* One iteration of the main loop of parseHTML, from the state of the scan:
\* it leaves less input, or the same input and the loop.
ProgressOrExit ==
  LET it == Call("Iteration", <<Machine>>)
  IN \/ Len(it.m.html) < Len(html)
     \/ it.m.html = html /\ (it.brk \/ it.m.threw)

RECURSIVE AttrScanAdvances(_)
\* Every iteration of the attribute scan of parseStartTag, from the machine
\* m on, consumes at least one character.
AttrScanAdvances(m) ==
  LET close == Call("StartTagClose", <<m.html>>)
      attr == Call("AttributeMatch", <<m.html>>)
  IN ~close.ok /\ attr.ok =>
        /\ attr.len >= 1
        /\ Len(advance(m, attr.len).html) < Len(m.html)
        /\ AttrScanAdvances(advance(m, attr.len))

RECURSIVE TextSearchAdvances(_, _)
\* Every iteration of the search for the next '<' in text, from the text
\* end textEnd on, moves the text end forward.
TextSearchAdvances(h, textEnd) ==
  LET rest == SubSeq(h, textEnd + 1, Len(h))
      next == IndexOfChar(rest, "<", 1)
  IN ~StartsMarkup(rest) /\ next >= 0 =>
        /\ next >= 1
        /\ textEnd + next < Len(h)
        /\ TextSearchAdvances(h, textEnd + next)

\* C29: parseHTML terminates: each iteration of its main loop removes at
\* least one character from the input left, or leaves it as it is and
\* leaves the loop; each iteration of the attribute scan of parseStartTag
\* and of the search for the next '<' in text advances.
C29_ParseHTMLTerminates ==
  pc = "scan" =>
     /\ html # <<>>
     /\ ProgressOrExit
     /\ StartTagOpen(html) >= 0 =>
           AttrScanAdvances(advance(Machine, StartTagOpen(html)))
     /\ IndexOfChar(html, "<", 0) >= 0 =>
           TextSearchAdvances(html, IndexOfChar(html, "<", 0))

\* C29: the loop was left with input that no iteration could consume.
C29_Witness ==
  /\ pc = "cleanup"
  /\ html # <<>>
  /\ ~threw

\* The block of the k-th condition of node c, 0 when there is none.
BlockOf(ns, c, k) ==
  IF k <= Len(ns[c].ifConditions) THEN ns[c].ifConditions[k].block ELSE 0

\* The element children of the sequence and the blocks of their groups.
ChildrenAndBlocks(ns, children) ==
  LET E == {children[i] : i \in {i \in 1..Len(children) : ns[children[i]].type = 1}}
  IN E \cup ({BlockOf(ns, c, k) : c \in E, k \in 1..Len(ns)} \ {0})

\* The normalization level as the statement gives it.
LevelOf(ns, opts, children) ==
  LET S == ChildrenAndBlocks(ns, children)
  IN IF \E c \in S : \/ Truthy(ns[c].for)
                     \/ Str(ns[c].tag) \in {"template", "slot"}
     THEN 2
     ELSE IF \E c \in S : ~isReservedTag(opts, ns[c].tag) \/ Truthy(ns[c].component)
     THEN 1
     ELSE 0

\* genChildren takes the shortcut of a single iteration child.
SingleIteration(ns, children) ==
  /\ Len(children) = 1
  /\ Truthy(ns[children[1]].for)
  /\ Str(ns[children[1]].tag) \notin {"template", "slot"}

\* The elements whose children genChildren compiles with a level.
LevelNodes ==
  {e \in Elements :
     nodes[e].children # <<>> /\ ~SingleIteration(nodes, nodes[e].children)}

\* genChildren(e, st, true) is the array of the compiled children, followed
\* by the level when it is not 0.
LevelAppended(e, st) ==
  LET children == st.nodes[e].children
      r == Call("GenChildren", <<e, st, TRUE>>)
      texts == GenNodes(children, 1, <<>>, st).texts
      level == LevelOf(st.nodes, st.opts, children)
  IN ~r.st.threw =>
       r.code = "[" \o JoinStr(texts, ",") \o "]"
                \o (IF level = 0 THEN "" ELSE "," \o ToString(level))

\* C31: when genChildren computes a normalization level, it is 2 when an
\* element child or a block of its conditional group is an iteration, a
\* template or a slot, otherwise 1 when one of them is component-like,
\* otherwise 0; the level follows the children array only when it is not 0,
\* and text and comment children do not raise it.
C31_NormalizationLevel ==
  pc = "optimized" =>
     \A e \in LevelNodes : LevelAppended(e, GenState(nodes, warnings, options))

\* C31: an AST is ready whose children get level 2 through a block of a
\* conditional group only, beside a text or element child.
C31_Witness ==
  /\ pc = "optimized"
  /\ options.web
  /\ \E e \in LevelNodes :
        /\ LevelOf(nodes, [production |-> FALSE, web |-> TRUE], nodes[e].children) = 2
        /\ \A i \in 1..Len(nodes[e].children) :
              LET c == nodes[nodes[e].children[i]]
              IN c.type = 1 => ~Truthy(c.for) /\ Str(c.tag) \notin {"template", "slot"}

\* The slot outlets of the AST.
SlotNodes == {e \in Elements : Str(nodes[e].tag) = "slot"}

\* The attribute payload of a slot outlet, "" when it has no attribute.
SlotAttrs(n) ==
  IF n.attrs = <<>> THEN ""
  ELSE "{" \o JoinStr([i \in 1..Len(n.attrs) |->
                         Str(Call("camelize", <<n.attrs[i].name>>)) \o ":"
                         \o Str(n.attrs[i].value)], ",") \o "}"

\* The binding a slot outlet forwards, "" when it has none.
SlotBind(n) ==
  LET bind == MapGet(n.attrsMap, <<"v", "-", "b", "i", "n", "d">>)
  IN IF Truthy(bind) THEN Str(bind) ELSE ""

\* The fallback children of a slot outlet as one argument, "" when it has
\* no child: the iteration call of a single iteration child, the array of
\* the compiled children otherwise.
SlotFallback(e, st) ==
  LET children == st.nodes[e].children
  IN IF children = <<>> THEN ""
     ELSE IF SingleIteration(st.nodes, children)
     THEN Call("GenElement", <<children[1], st>>).code
     ELSE "[" \o JoinStr(GenNodes(children, 1, <<>>, st).texts, ",") \o "]"

\* The arguments at their positions: an absent one before a present one is
\* null, and no null is last.
Positional(name, children, attrs, bind) ==
  LET args == <<name, children, attrs, bind>>
      last == CHOOSE k \in 1..4 : args[k] # "" /\ \A j \in k + 1..4 : args[j] = ""
  IN "_t(" \o JoinStr([k \in 1..last |-> IF args[k] = "" THEN "null" ELSE args[k]], ",")
           \o ")"

\* C32: the slot-render call genSlot emits has the slot name as argument 1,
\* the fallback children as argument 2, the attribute payload as argument 3
\* and the forwarded binding as argument 4; an absent one before a present
\* one is null and no null is last.
C32_SlotArguments ==
  pc = "optimized" =>
     \A e \in SlotNodes :
        LET st == GenState(nodes, warnings, options)
            n == nodes[e]
        IN Call("GenSlot", <<e, st>>).code =
             Positional(IF Truthy(n.slotName) THEN Str(n.slotName) ELSE "\"default\"",
                        SlotFallback(e, st), SlotAttrs(n), SlotBind(n))

\* The statement of C32 for the slot outlets whose fallback is not a single
\* iteration child.
SlotArgumentsWithoutIteration ==
  pc = "optimized" =>
     \A e \in SlotNodes :
        LET st == GenState(nodes, warnings, options)
            n == nodes[e]
        IN ~SingleIteration(nodes, n.children) =>
             Call("GenSlot", <<e, st>>).code =
               Positional(IF Truthy(n.slotName) THEN Str(n.slotName) ELSE "\"default\"",
                          SlotFallback(e, st), SlotAttrs(n), SlotBind(n))

\* An element open on the stack of the AST builder is a pre tag.
OpenPre ==
  \E i \in 1..Len(astStack) : isPreTag(Machine, nodes[astStack[i]].tag)

\* The iteration of the tokenizer about to run, and the text it consumes.
NextIteration == Call("Iteration", <<Machine>>)
Consumed == SubSeq(html, 1, Len(html) - Len(html'))

\* A text event arrives inside an open pre element: the text is kept as it
\* is, as the last child of the current parent.
PreTextKept ==
  (pc = "scan" /\ OpenPre /\ currentParent # 0
     /\ NextIteration.branch = "text" /\ Len(html') < Len(html)) =>
       LET cs == nodes'[currentParent].children
       IN /\ cs # <<>>
          /\ nodes'[cs[Len(cs)]].type \in {2, 3}
          /\ nodes'[cs[Len(cs)]].text = decodeHTML(Consumed)

\* An end tag arrives while a pre element stays open: the element that
\* closes keeps its trailing whitespace child.
PreStripSkipped ==
  (pc = "scan" /\ OpenPre /\ NextIteration.branch = "endTag"
     /\ Len(astStack') = Len(astStack) - 1
     /\ \E i \in 1..Len(astStack') : isPreTag(Machine, nodes[astStack'[i]].tag)) =>
       LET e == astStack[Len(astStack)]
       IN nodes'[e].children = nodes[e].children

\* C33: the whitespace-preserving context of the AST builder is active
\* whenever an element open on its stack is a pre tag: text arriving inside
\* an open pre element, also after a nested pre element has closed, is kept
\* uncollapsed, and the strip of trailing whitespace at an end tag is
\* skipped while a pre element is still open.
C33_PreContext ==
  /\ [](pc = "scan" /\ OpenPre => inPre)
  /\ [][PreTextKept]_vars
  /\ [][PreStripSkipped]_vars

\* The three parts of C33, each on its own.
PreFlagSet == pc = "scan" /\ OpenPre => inPre
PreTextAlwaysKept == [][PreTextKept]_vars
PreStripAlwaysSkipped == [][PreStripSkipped]_vars

\* The position (from 1) of the topmost open element whose name is that of
\* the end tag, letter case aside; 0 when there is none.
MatchPos ==
  LET S == {i \in 1..Len(stack) : stack[i].lowerCasedTag = toLowerCase(EndTagName)}
  IN IF S = {} THEN 0 ELSE CHOOSE i \in S : \A j \in S : j <= i

IsNoEndTagWarning(w) == w.msg = "tag has no matching end tag"

\* The end events for the open elements from the innermost down to the
\* one at position pos.
EndEvents(pos) ==
  [k \in 1..Len(stack) - pos + 1 |->
     [ev |-> "end", tag |-> stack[Len(stack) - k + 1].tag]]

\* C34: an end tag that matches, letter case aside, an open element that
\* is not the innermost closes every element above it: the end events come
\* innermost first and the matched element last, each element above the
\* match gets the diagnostic of the missing end tag and the matched one
\* does not, and then the stack holds the elements below the match, with
\* lastTag the name of its top, or nothing when it is empty.
C34_ClosesAbove ==
  [][(ReadsEndTag /\ 0 < MatchPos /\ MatchPos < Len(stack)) =>
       /\ events' = events \o EndEvents(MatchPos)
       /\ Cardinality(Where(warnings', IsNoEndTagWarning))
            = Cardinality(Where(warnings, IsNoEndTagWarning))
              + (IF options.production THEN 0 ELSE Len(stack) - MatchPos)
       /\ stack' = SubSeq(stack, 1, MatchPos - 1)
       /\ lastTag' = IF MatchPos = 1 THEN Undefined ELSE stack[MatchPos - 1].tag]_vars

\* C34: an end tag written in other letters than the start tag has closed
\* the two elements open above its element, with two diagnostics.
C34_Witness ==
  /\ pc \in {"scan", "cleanup"}
  /\ stack = <<>> /\ lastTag = Undefined
  /\ Len(events) >= 3
  /\ events[Len(events) - 2] = [ev |-> "end", tag |-> <<"i">>]
  /\ events[Len(events) - 1] = [ev |-> "end", tag |-> <<"b">>]
  /\ events[Len(events)] = [ev |-> "end", tag |-> <<"D", "i", "v">>]
  /\ Cardinality(Where(warnings, IsNoEndTagWarning)) = 2

\* The end handler of the builder was called with no element open: the
\* call threw, so the last event raised is an end event of which no return
\* was recorded.
EndOnEmptyStack ==
  /\ threw
  /\ Len(events) > Len(depths)
  /\ events[Len(events)].ev = "end"

\* C35 as stated: after every tokenizer event the stack of the builder is
\* as deep as the stack of the tokenizer, and the end handler never runs on
\* an empty stack.
C35_SameDepthAfterEveryEvent ==
  /\ \A i \in 1..Len(depths) : depths[i].builder = depths[i].tokenizer
  /\ ~EndOnEmptyStack

\* C35: between two iterations of the main loop of the tokenizer, and when
\* it has returned, the stack of the builder is as deep as the stack of
\* the tokenizer; after an event inside an iteration it is at most one
\* deeper; and the end handler never runs on an empty stack.
C35_SameDepth ==
  /\ pc \in {"scan", "cleanup", "parsed"} => Len(astStack) = Len(stack)
  /\ \A i \in 1..Len(depths) : depths[i].builder <= depths[i].tokenizer + 1
  /\ ~EndOnEmptyStack

\* C35: the stacks are equally deep after an iteration in which they were
\* not: the builder's was deeper after the start event made up for a stray
\* paragraph end tag, and less deep inside a closing loop.
C35_Witness ==
  /\ pc \in {"scan", "cleanup"}
  /\ Len(astStack) = Len(stack)
  /\ \E i \in 1..Len(depths) : depths[i].builder = depths[i].tokenizer + 1
  /\ \E i \in 1..Len(depths) : depths[i].builder < depths[i].tokenizer

RECURSIVE Covers(_, _, _, _)
\* The raw tokens cover text from the 0-based position pos to its end, in
\* order and without a gap or an overlap: a literal is not empty and is the
\* text at pos; a binding stands for a delimiter span that starts at pos,
\* the opening delimiter, an inner text that resolves to the expression of
\* the binding, and the closing delimiter; the next token starts where the
\* literal or the span ends, and the last one ends the text.
Covers(text, tokens, pos, d) ==
  IF tokens = <<>> THEN pos = Len(text)
  ELSE LET t == Head(tokens)
       IN IF ~t.binding
          THEN /\ t.value # <<>>
               /\ pos + Len(t.value) <= Len(text)
               /\ Slice(text, pos, pos + Len(t.value)) = t.value
               /\ Covers(text, Tail(tokens), pos + Len(t.value), d)
          ELSE LET c == Call("MatchAt", <<text, pos, d, delimiters = Undefined>>)
               IN /\ c >= 0
                  /\ t.value = Call("parseFilters", <<Trim(Slice(text, pos + Len(d[1]), c))>>)
                  /\ Covers(text, Tail(tokens), c + Len(d[2]), d)

\* C36: the segments of parseText partition its input: no literal is
\* empty, and the literals and the delimiter spans of the bindings, put
\* one after the other in token order, are the text, no character lost and
\* none twice.
C36_Partition ==
  \A n \in ExpressionNodes : Covers(nodes[n].text, nodes[n].tokens, 0, DelimitersInForce)

\* C36: a text of three segments was parsed, a literal between two spans,
\* the first span with spaces and a filter inside its delimiters.
C36_Witness ==
  /\ pc = "parsed"
  /\ \E n \in ExpressionNodes :
       /\ Len(nodes[n].tokens) = 3
       /\ \A i \in 1..3 : nodes[n].tokens[i].binding <=> i \in {1, 3}
       /\ Len(nodes[n].text) = 18
====
